---- MODULE Spec2Model ----
(***************************************************************************)
(* Model of the expense tracker's synchronisation and merge engine:        *)
(* the zustand store (recalculateCategorySpending, mergeRemoteWithLocal,   *)
(* the mutators, syncToFirestore, loadFromFirestore, the two subscription  *)
(* callbacks) and firestoreService (saveBudget, updateMemberInfo,          *)
(* getBudgets, subscribeToFamilyUpdates) over one shared family document.  *)
(*                                                                         *)
(* Representation.  A nullable value is a sequence of length 0 or 1.  A    *)
(* date string is the instant it denotes together with its format.  A      *)
(* JavaScript Map is a function whose DOMAIN is the key set.               *)
(***************************************************************************)
EXTENDS Integers, Sequences, FiniteSets, TLC

VARIABLES
    \* the merge specifications: two budget lists and their merge, the merge
    \* repeated on its own result, with the lists swapped, and of the local
    \* list with itself
    mLocal, mRemote, mMerged, mDone, mAgain, mSwapped, mSelf,
    \* the aggregation specification: a budget, its recalculation and the
    \* recalculation of that (each nullable)
    rBudget, rOnce, rTwice,
    \* the current budget of the store of src/src/store/useExpenseStore.ts,
    \* which keeps spentAmount by increment and decrement (nullable)
    currentBudgetInc,
    \* the store of each device (useExpenseStore state)
    currentBudget, budgetHistory, selectedMonth,
    isInitializing, isSyncing, syncError, lastSyncTime, isListenerActive,
    familyId,
    \* firestoreService of each device
    svcFamilyId, isSubscribed, unsubscribeFunctions,
    \* the families collection: family id -> document (nullable)
    docs,
    \* snapshots the server has sent to a device's listener and the listener
    \* has not yet handled
    inbox,
    \* calls suspended at an await: syncToFirestore, loadFromFirestore, the
    \* 100 ms timers of addManualExpense
    pushes, pulls, timers,
    \* the connect calls (initializeFirestore, createOrJoinFamily) of each
    \* device, finished ones included, and the family id in its localStorage
    connects, storedFamilyId,
    \* number of user operations so far, and per device the ids generated
    ops, nextId,
    \* history: per device the expense ids its user added and deleted, and
    \* the arguments of its last topupCategory call
    added, removed, lastTopup

mergeVars == <<mLocal, mRemote, mMerged, mDone, mAgain, mSwapped, mSelf,
               rBudget, rOnce, rTwice, currentBudgetInc>>
storeVars == <<currentBudget, budgetHistory, selectedMonth, isInitializing,
               isSyncing, syncError, lastSyncTime, isListenerActive, familyId>>
serviceVars == <<svcFamilyId, isSubscribed, unsubscribeFunctions>>
asyncVars == <<pushes, pulls, timers>>
connectVars == <<connects, storedFamilyId>>
historyVars == <<added, removed, lastTopup>>
vars == <<mLocal, mRemote, mMerged, mDone, mAgain, mSwapped, mSelf,
          rBudget, rOnce, rTwice, currentBudgetInc,
          currentBudget, budgetHistory, selectedMonth, isInitializing,
          isSyncing, syncError, lastSyncTime, isListenerActive, familyId,
          svcFamilyId, isSubscribed, unsubscribeFunctions, docs, inbox,
          pushes, pulls, timers, connects, storedFamilyId, ops, nextId,
          added, removed, lastTopup>>

----------------------------------------------------------------------------
(* Generic helpers *)

Range(s) == {s[i] : i \in 1..Len(s)}

\* Array.prototype.find: the first element satisfying Test, as a nullable
Find(s, Test(_)) ==
    LET hits == {i \in 1..Len(s) : Test(s[i])}
    IN  IF hits = {} THEN <<>>
        ELSE <<s[CHOOSE i \in hits : \A j \in hits : i <= j]>>

\* Array.prototype.map
MapSeq(s, F(_)) == [i \in 1..Len(s) |-> F(s[i])]

\* All sequences over S of length at most n without a repeated element id
RECURSIVE UniqueSeqs(_, _)
UniqueSeqs(S, n) ==
    IF n = 0 THEN {<<>>}
    ELSE LET shorter == UniqueSeqs(S, n - 1)
         IN  shorter \cup
             {Append(s[1], s[2]) :
                 s \in {p \in shorter \X S :
                           \A i \in 1..Len(p[1]) : p[1][i].id # p[2].id}}

----------------------------------------------------------------------------
(* Dates.  A date string is the instant it denotes and its format: the full
   ISO form of Date.prototype.toISOString, or the yyyy-MM-dd form of the
   date inputs.  A Firestore Timestamp is [ts |-> instant]. *)

Iso(t) == [t |-> t, fmt |-> "iso"]
Ymd(t) == [t |-> t, fmt |-> "ymd"]

\* new Date(s).getTime()
DateOf(s) == s.t

\* Timestamp.fromDate(new Date(s))
TimestampFromDate(s) == [ts |-> DateOf(s)]

\* ts.toDate().toISOString()
TimestampToISO(ts) == Iso(ts.ts)

\* Timestamp.now(): the model keeps no wall clock; the fields it fills are
\* never read by the store
TimestampNow == [ts |-> 0]

Null == <<>>
Some(x) == <<x>>

----------------------------------------------------------------------------
(* Derived aggregation *)

EmptyMap == [k \in {} |-> 0]

\* budget.expenses.forEach(...): the Map categoryId -> running sum after the
\* first n expenses
RECURSIVE categorySpending(_, _)
categorySpending(expenses, n) ==
    IF n = 0 THEN EmptyMap
    ELSE LET m == categorySpending(expenses, n - 1)
             expense == expenses[n]
             currentSpent == IF expense.categoryId \in DOMAIN m
                             THEN m[expense.categoryId] ELSE 0
         IN  [k \in DOMAIN m \cup {expense.categoryId} |->
                 IF k = expense.categoryId
                 THEN currentSpent + expense.amount ELSE m[k]]

\* A variant that forgets to reset: it adds the sum to the stored spentAmount
recalculateAccumulating(budget) ==
    LET spending == categorySpending(budget.expenses, Len(budget.expenses))
    IN  [budget EXCEPT !.categories =
            MapSeq(budget.categories, LAMBDA cat :
                [cat EXCEPT !.spentAmount =
                    cat.spentAmount +
                    (IF cat.id \in DOMAIN spending THEN spending[cat.id] ELSE 0)])]

\* A variant that leaves a category without expenses at its stored amount
recalculateKeepingStale(budget) ==
    LET spending == categorySpending(budget.expenses, Len(budget.expenses))
    IN  [budget EXCEPT !.categories =
            MapSeq(budget.categories, LAMBDA cat :
                [cat EXCEPT !.spentAmount =
                    IF cat.id \in DOMAIN spending THEN spending[cat.id] ELSE @])]

recalculateCategorySpending(budget) ==
    LET spending == categorySpending(budget.expenses, Len(budget.expenses))
    IN  [budget EXCEPT !.categories =
            MapSeq(budget.categories, LAMBDA cat :
                [cat EXCEPT !.spentAmount =
                    IF cat.id \in DOMAIN spending THEN spending[cat.id] ELSE 0])]

----------------------------------------------------------------------------
(* Merge algorithm *)

\* new Map(remoteBudgets.map((b) => [b.id, b])): a later entry with the same
\* key replaces the value and keeps the position of the first
remoteBudgetMapKeys(remoteBudgets) ==
    SelectSeq([i \in 1..Len(remoteBudgets) |->
                  [id |-> remoteBudgets[i].id,
                   first |-> \A j \in 1..(i - 1) :
                                remoteBudgets[j].id # remoteBudgets[i].id]],
              LAMBDA k : k.first)

remoteBudgetMapGet(remoteBudgets, id) ==
    LET hits == {i \in 1..Len(remoteBudgets) : remoteBudgets[i].id = id}
    IN  remoteBudgets[CHOOSE i \in hits : \A j \in hits : j <= i]

\* A merge that keeps only the local expenses
mergeExpensesLocalOnly(localBudget, remoteBudget) == localBudget.expenses

\* A merge that keeps only the remote expenses
mergeExpensesRemoteOnly(localBudget, remoteBudget) == remoteBudget.expenses

\* A merge that appends every remote expense, colliding or not
mergeExpensesConcat(localBudget, remoteBudget) ==
    localBudget.expenses \o remoteBudget.expenses

\* A merge in which the remote copy of a colliding expense wins
mergeExpensesRemoteWins(localBudget, remoteBudget) ==
    LET remoteExpenseIds == {remoteBudget.expenses[i].id :
                                i \in 1..Len(remoteBudget.expenses)}
    IN  SelectSeq(localBudget.expenses,
                  LAMBDA localExpense : localExpense.id \notin remoteExpenseIds)
        \o remoteBudget.expenses

\* lines 138-148: the local expenses, then the remote expenses whose id is not
\* a local expense's id
mergeExpenses(localBudget, remoteBudget) ==
    LET localExpenseIds == {localBudget.expenses[i].id :
                               i \in 1..Len(localBudget.expenses)}
    IN  localBudget.expenses \o
        SelectSeq(remoteBudget.expenses,
                  LAMBDA remoteExpense : remoteExpense.id \notin localExpenseIds)

\* new Date(remote.createdAt) > new Date(local.createdAt)
isRemoteNewerOrEqual(localBudget, remoteBudget) ==
    DateOf(remoteBudget.createdAt) >= DateOf(localBudget.createdAt)

isRemoteNewer(localBudget, remoteBudget) ==
    DateOf(remoteBudget.createdAt) > DateOf(localBudget.createdAt)

\* lines 136-164: the merged budget of a local budget and its remote copy
mergeBudget(localBudget, remoteBudget) ==
    LET allExpenses == mergeExpenses(localBudget, remoteBudget)
        baseBudget == IF isRemoteNewer(localBudget, remoteBudget)
                      THEN remoteBudget ELSE localBudget
    IN  recalculateCategorySpending([baseBudget EXCEPT !.expenses = allExpenses])

\* The for loop over localBudgets: i budgets processed, `deleted` the keys
\* removed from remoteBudgetMap so far
RECURSIVE mergeLocalLoop(_, _, _)
mergeLocalLoop(localBudgets, remoteBudgets, n) ==
    IF n = 0 THEN [merged |-> <<>>, deleted |-> {}]
    ELSE LET prev == mergeLocalLoop(localBudgets, remoteBudgets, n - 1)
             localBudget == localBudgets[n]
             remoteIds == Range(MapSeq(remoteBudgets, LAMBDA b : b.id))
             present == /\ localBudget.id \in remoteIds
                        /\ localBudget.id \notin prev.deleted
         IN  IF present
             THEN [merged |-> Append(prev.merged,
                                 mergeBudget(localBudget,
                                     remoteBudgetMapGet(remoteBudgets, localBudget.id))),
                   deleted |-> prev.deleted \cup {localBudget.id}]
             ELSE [merged |-> Append(prev.merged, localBudget),
                   deleted |-> prev.deleted]

\* A merge that forgets the budgets only the remote list holds
mergeRemoteWithLocalNoAppend(localBudgets, remoteBudgets) ==
    mergeLocalLoop(localBudgets, remoteBudgets, Len(localBudgets)).merged

mergeRemoteWithLocal(localBudgets, remoteBudgets) ==
    LET loop == mergeLocalLoop(localBudgets, remoteBudgets, Len(localBudgets))
        keys == remoteBudgetMapKeys(remoteBudgets)
        remaining == SelectSeq(keys, LAMBDA k : k.id \notin loop.deleted)
    IN  loop.merged \o
        MapSeq(remaining, LAMBDA k : remoteBudgetMapGet(remoteBudgets, k.id))

----------------------------------------------------------------------------
(* firestoreService: the wire format *)

\* budgetToFirestore.  The store never holds a budget with an empty createdAt,
\* so the Timestamp.now() alternative for createdAt is not taken.
budgetToFirestore(budget) ==
    [createdAt |-> TimestampFromDate(budget.createdAt),
     updatedAt |-> TimestampNow,
     expenses |-> MapSeq(budget.expenses, LAMBDA expense :
                     [date |-> TimestampFromDate(expense.date),
                      createdAt |-> TimestampNow,
                      updatedAt |-> TimestampNow] @@ expense)] @@ budget

\* budgetFromFirestore: the spread keeps the wire-only fields (updatedAt, and
\* createdAt/updatedAt of each expense)
budgetFromFirestore(firestoreBudget) ==
    [createdAt |-> TimestampToISO(firestoreBudget.createdAt),
     expenses |-> MapSeq(firestoreBudget.expenses, LAMBDA expense :
                     [date |-> TimestampToISO(expense.date)] @@ expense)]
    @@ firestoreBudget

----------------------------------------------------------------------------
(* Inputs of the merge specification *)

\* The longest expense list of an enumerated budget
MaxLen == 2

ExpensePool ==
    { [id |-> i, categoryId |-> v.c, amount |-> v.a, description |-> v.d,
       date |-> v.t, type |-> "manual"] :
         i \in {"e1", "e2", "e3"},
         v \in { [c |-> "c1", a |-> 100, d |-> "x", t |-> Ymd(1)],
                 [c |-> "c2", a |-> 50, d |-> "y", t |-> Iso(2)] } }

Category(id, name, type, allocated, spent, month) ==
    [id |-> id, name |-> name, type |-> type, allocatedAmount |-> allocated,
     spentAmount |-> spent, month |-> month]

\* Two metadata versions of one budget: income, categories and templates differ
MetaPool ==
    { [totalSalary |-> 1000,
       categories |-> << Category("c1", "Grocery", "grocery", 300, 0, "m1"),
                         Category("c2", "Unplanned Expenses", "unplanned", 0, 0, "m1") >>,
       fixedExpenses |-> <<>>],
      [totalSalary |-> 2000,
       categories |-> << Category("c1", "Grocery", "grocery", 500, 0, "m1") >>,
       fixedExpenses |-> << [id |-> "f1", name |-> "Fuel", amount |-> 2000,
                             isCompleted |-> FALSE, dueDate |-> Ymd(1),
                             categoryId |-> "c1"] >>] }

\* Budgets as the store holds them: spent amounts derived from the expenses
BudgetPool ==
    { recalculateCategorySpending(
          [id |-> "b1", month |-> "m1", totalSalary |-> meta.totalSalary,
           categories |-> meta.categories, fixedExpenses |-> meta.fixedExpenses,
           expenses |-> exps, createdAt |-> at]) :
        meta \in MetaPool, exps \in UniqueSeqs(ExpensePool, MaxLen),
        at \in {Iso(1), Iso(2)} }

\* No device takes part in the merge specification
SystemIdle ==
    /\ currentBudget = <<>> /\ budgetHistory = <<>> /\ selectedMonth = <<>>
    /\ isInitializing = <<>> /\ isSyncing = <<>> /\ syncError = <<>>
    /\ lastSyncTime = <<>> /\ isListenerActive = <<>> /\ familyId = <<>>
    /\ svcFamilyId = <<>> /\ isSubscribed = <<>> /\ unsubscribeFunctions = <<>>
    /\ docs = <<>> /\ inbox = <<>> /\ pushes = <<>> /\ pulls = <<>>
    /\ timers = <<>> /\ connects = <<>> /\ storedFamilyId = <<>>
    /\ ops = 0 /\ nextId = <<>>
    /\ added = <<>> /\ removed = <<>> /\ lastTopup = <<>>

\* No budget takes part in the aggregation specification
RecalcIdle ==
    rBudget = <<>> /\ rOnce = <<>> /\ rTwice = <<>> /\ currentBudgetInc = <<>>

\* The lists are chosen and not yet merged
MergePending ==
    /\ mMerged = <<>> /\ mAgain = <<>> /\ mSwapped = <<>> /\ mSelf = <<>>
    /\ mDone = FALSE

MergeInit ==
    /\ SystemIdle
    /\ mLocal \in {<<b>> : b \in BudgetPool}
    /\ mRemote \in {<<budgetFromFirestore(budgetToFirestore(b))>> : b \in BudgetPool}
    /\ MergePending
    /\ RecalcIdle

\* One merge of the two lists, and with its result at hand the three further
\* merges the algebraic properties speak of
MergeStep ==
    /\ ~mDone
    /\ mMerged' = mergeRemoteWithLocal(mLocal, mRemote)
    /\ mAgain' = mergeRemoteWithLocal(mLocal, mMerged')
    /\ mSwapped' = mergeRemoteWithLocal(mRemote, mLocal)
    /\ mSelf' = mergeRemoteWithLocal(mLocal, mLocal)
    /\ mDone' = TRUE
    /\ UNCHANGED <<mLocal, mRemote, rBudget, rOnce, rTwice, currentBudgetInc,
                   storeVars,
                   serviceVars, docs, inbox, asyncVars, connectVars, ops,
                   nextId, historyVars>>

MergeNext == MergeStep

SpecMerge == MergeInit /\ [][MergeNext]_vars

----------------------------------------------------------------------------
(* Inputs of the merge specification over budget lists *)

\* The longest budget list of an enumerated history
MaxBudgets == 2

ExpenseOf(id, categoryId, amount, date) ==
    [id |-> id, categoryId |-> categoryId, amount |-> amount,
     description |-> "x", date |-> date, type |-> "manual"]

\* Four versions of the budget of one month: creation instant, metadata and
\* expenses differ, expense ids overlap between versions
BudgetVersions(id, month) ==
    LET meta1 == [totalSalary |-> 1000,
                  categories |-> << Category("c1", "Grocery", "grocery", 300, 0, month),
                                    Category("c2", "Unplanned Expenses", "unplanned",
                                             0, 0, month) >>]
        meta2 == [totalSalary |-> 2000,
                  categories |-> << Category("c1", "Grocery", "grocery", 500, 0, month) >>]
        budget(meta, exps, at) ==
            recalculateCategorySpending(
                [id |-> id, month |-> month, totalSalary |-> meta.totalSalary,
                 categories |-> meta.categories, fixedExpenses |-> <<>>,
                 expenses |-> exps, createdAt |-> at])
    IN  { budget(meta1, <<>>, Iso(1)),
          budget(meta1, << ExpenseOf("e1", "c1", 100, Ymd(1)) >>, Iso(2)),
          budget(meta2, << ExpenseOf("e1", "c1", 70, Iso(1)),
                           ExpenseOf("e2", "c1", 50, Iso(2)) >>, Iso(1)),
          budget(meta2, << ExpenseOf("e2", "c2", 50, Ymd(2)),
                           ExpenseOf("e3", "c1", 30, Ymd(2)) >>, Iso(2)) }

ListBudgetPool ==
    BudgetVersions("b1", "m1") \cup BudgetVersions("b2", "m2")
    \cup BudgetVersions("b3", "m3")

\* Histories as the store holds them: one budget per month
Histories == UniqueSeqs(ListBudgetPool, MaxBudgets)

ListsInit ==
    /\ SystemIdle
    /\ mLocal \in Histories
    /\ mRemote \in {MapSeq(h, LAMBDA b : budgetFromFirestore(budgetToFirestore(b))) :
                        h \in Histories}
    /\ MergePending
    /\ RecalcIdle

SpecMergeLists == ListsInit /\ [][MergeNext]_vars

----------------------------------------------------------------------------
(* Inputs of the aggregation specification *)

\* Budgets as mergeBudget hands them to recalculateCategorySpending: the
\* stored spent amounts are those of another expense list, and an expense may
\* name a category the base budget does not have
RecalcPool ==
    { [id |-> "b1", month |-> "m1", totalSalary |-> meta.totalSalary,
       categories |-> MapSeq(meta.categories, LAMBDA cat :
                         [cat EXCEPT !.spentAmount = stored]),
       fixedExpenses |-> meta.fixedExpenses,
       expenses |-> exps, createdAt |-> Iso(1)] :
        meta \in MetaPool, exps \in UniqueSeqs(ExpensePool, MaxLen),
        stored \in {0, 40} }

RecalcInit ==
    /\ SystemIdle
    /\ mLocal = <<>> /\ mRemote = <<>>
    /\ mMerged = <<>> /\ mAgain = <<>> /\ mSwapped = <<>> /\ mSelf = <<>>
    /\ mDone = TRUE
    /\ rBudget \in RecalcPool
    /\ rOnce = Null
    /\ rTwice = Null
    /\ currentBudgetInc = <<>>

recalcFrame ==
    UNCHANGED <<mLocal, mRemote, mMerged, mDone, mAgain, mSwapped, mSelf,
                rBudget, currentBudgetInc, storeVars, serviceVars, docs,
                inbox, asyncVars,
                connectVars, ops, nextId, historyVars>>

Recalculate ==
    /\ rOnce = Null
    /\ rOnce' = Some(recalculateCategorySpending(rBudget))
    /\ UNCHANGED rTwice
    /\ recalcFrame

RecalculateAgain ==
    /\ rOnce # Null
    /\ rTwice = Null
    /\ rTwice' = Some(recalculateCategorySpending(rOnce[1]))
    /\ UNCHANGED rOnce
    /\ recalcFrame

RecalcNext == Recalculate \/ RecalculateAgain

SpecRecalc == RecalcInit /\ [][RecalcNext]_vars

----------------------------------------------------------------------------
(* The store and the service of each device *)

Devices == {"A", "B"}

\* The most user operations (mutations, manual pulls) in one behaviour
MaxOps == 2

\* firestoreService.getMemberId(): the id generated once per device and kept
\* in localStorage
getMemberId(d) == d

\* abridged to the grocery and fixed-expenses entries
defaultCategories ==
    << [name |-> "Fixed Expenses", type |-> "fixed_expenses"],
       [name |-> "Grocery", type |-> "grocery"] >>

\* abridged to the first entry
predefinedFixedExpenses == << [name |-> "Milk Bill", amount |-> 1500] >>

RECURSIVE SumAmountsFrom(_, _)
SumAmountsFrom(list, i) ==
    IF i > Len(list) THEN 0 ELSE list[i].amount + SumAmountsFrom(list, i + 1)

getTotalPredefinedFixedExpenses == SumAmountsFrom(predefinedFixedExpenses, 1)

\* The budget createMonthlyBudget builds: n stands for the Date.now() and
\* Math.random() parts of the generated ids, now for the creation instant
newBudget(d, n, salary, currentMonth, now) ==
    LET categoryId(i) == <<defaultCategories[i].type, d, n>>
        fixedIdx == {i \in 1..Len(defaultCategories) :
                        defaultCategories[i].type = "fixed_expenses"}
        categories ==
            [i \in 1..Len(defaultCategories) |->
                Category(categoryId(i), defaultCategories[i].name,
                         defaultCategories[i].type,
                         IF i \in fixedIdx THEN getTotalPredefinedFixedExpenses ELSE 0,
                         0, currentMonth)]
        fixedExpenses ==
            IF fixedIdx = {} THEN <<>>
            ELSE [i \in 1..Len(predefinedFixedExpenses) |->
                    [id |-> <<"fixed", i, d, n>>,
                     categoryId |-> categoryId(CHOOSE j \in fixedIdx :
                                                  \A k \in fixedIdx : j <= k),
                     name |-> predefinedFixedExpenses[i].name,
                     amount |-> predefinedFixedExpenses[i].amount,
                     isCompleted |-> FALSE,
                     dueDate |-> Ymd(now)]]
    IN  [id |-> <<"budget", currentMonth, d, n>>,
         month |-> currentMonth,
         totalSalary |-> salary,
         categories |-> categories,
         fixedExpenses |-> fixedExpenses,
         expenses |-> <<>>,
         createdAt |-> Iso(now)]

\* state.budgetHistory.map((budget) => budget.id === id ? updatedBudget : budget)
replaceBudget(history, id, updatedBudget) ==
    MapSeq(history, LAMBDA budget : IF budget.id = id THEN updatedBudget ELSE budget)

\* mergedBudgets.find((b) => b.month === selectedMonth) || previous
findCurrentBudget(budgets, month, previous) ==
    LET found == Find(budgets, LAMBDA b : b.month = month)
    IN  IF found # Null THEN found ELSE previous

(* The set(...) bodies of the mutators: the updated budget, or Null where the
   body returns the state unchanged.  cb is state.currentBudget (nullable). *)

updateCategoryAllocationBody(cb, categoryId, amount) ==
    IF cb = Null THEN Null
    ELSE Some([cb[1] EXCEPT !.categories =
                 MapSeq(cb[1].categories, LAMBDA cat :
                     IF cat.id = categoryId
                     THEN [cat EXCEPT !.allocatedAmount = amount] ELSE cat)])

addFixedExpenseBody(cb, newFixedExpense) ==
    IF cb = Null THEN Null
    ELSE Some([cb[1] EXCEPT !.fixedExpenses = Append(@, newFixedExpense)])

\* A completion that takes the template off the list
markFixedExpenseCompleteRemoving(cb, expenseId, manualExpenseId, now) ==
    IF cb = Null THEN Null
    ELSE LET fixedExpense == Find(cb[1].fixedExpenses, LAMBDA fe : fe.id = expenseId)
         IN  IF fixedExpense = Null THEN Null
             ELSE LET newManualExpense ==
                          [id |-> manualExpenseId,
                           categoryId |-> fixedExpense[1].categoryId,
                           amount |-> fixedExpense[1].amount,
                           description |-> fixedExpense[1].name,
                           date |-> Iso(now),
                           type |-> "fixed"]
                  IN  Some(recalculateCategorySpending(
                          [cb[1] EXCEPT
                              !.fixedExpenses = SelectSeq(@, LAMBDA fe :
                                  fe.id # expenseId),
                              !.expenses = Append(@, newManualExpense)]))

markFixedExpenseCompleteBody(cb, expenseId, manualExpenseId, now) ==
    IF cb = Null THEN Null
    ELSE LET fixedExpense == Find(cb[1].fixedExpenses, LAMBDA fe : fe.id = expenseId)
         IN  IF fixedExpense = Null THEN Null
             ELSE LET newManualExpense ==
                          [id |-> manualExpenseId,
                           categoryId |-> fixedExpense[1].categoryId,
                           amount |-> fixedExpense[1].amount,
                           description |-> fixedExpense[1].name,
                           date |-> Iso(now),
                           type |-> "fixed"]
                  IN  Some(recalculateCategorySpending(
                          [cb[1] EXCEPT
                              !.fixedExpenses = MapSeq(@, LAMBDA fe :
                                  IF fe.id = expenseId
                                  THEN [fe EXCEPT !.isCompleted = TRUE] ELSE fe),
                              !.expenses = Append(@, newManualExpense)]))

addManualExpenseBody(cb, newExpense) ==
    IF cb = Null THEN Null
    ELSE Some(recalculateCategorySpending(
                 [cb[1] EXCEPT !.expenses = Append(@, newExpense)]))

editExpenseBody(cb, expenseId, categoryId, amount, description, date) ==
    IF cb = Null THEN Null
    ELSE IF Find(cb[1].expenses, LAMBDA e : e.id = expenseId) = Null THEN Null
    ELSE Some(recalculateCategorySpending(
                 [cb[1] EXCEPT !.expenses = MapSeq(@, LAMBDA exp :
                     IF exp.id = expenseId
                     THEN [exp EXCEPT !.categoryId = categoryId,
                                      !.amount = amount,
                                      !.description = description,
                                      !.date = date]
                     ELSE exp)]))

deleteExpenseBody(cb, expenseId) ==
    IF cb = Null THEN Null
    ELSE IF Find(cb[1].expenses, LAMBDA e : e.id = expenseId) = Null THEN Null
    ELSE Some(recalculateCategorySpending(
                 [cb[1] EXCEPT !.expenses =
                     SelectSeq(@, LAMBDA exp : exp.id # expenseId)]))

\* A top-up that does not look at what is left in the source category
topupCategoryUnchecked(cb, fromCategoryId, toCategoryId, amount) ==
    IF cb = Null THEN Null
    ELSE LET fromCategory == Find(cb[1].categories, LAMBDA cat : cat.id = fromCategoryId)
             toCategory == Find(cb[1].categories, LAMBDA cat : cat.id = toCategoryId)
         IN  IF fromCategory = Null \/ toCategory = Null THEN Null
             ELSE Some([cb[1] EXCEPT !.categories = MapSeq(@, LAMBDA cat :
                     IF cat.id = fromCategoryId
                     THEN [cat EXCEPT !.allocatedAmount = @ - amount]
                     ELSE IF cat.id = toCategoryId
                     THEN [cat EXCEPT !.allocatedAmount = @ + amount]
                     ELSE cat)])

topupCategoryBody(cb, fromCategoryId, toCategoryId, amount) ==
    IF cb = Null THEN Null
    ELSE LET fromCategory == Find(cb[1].categories, LAMBDA cat : cat.id = fromCategoryId)
             toCategory == Find(cb[1].categories, LAMBDA cat : cat.id = toCategoryId)
         IN  IF fromCategory = Null \/ toCategory = Null THEN Null
             ELSE IF fromCategory[1].allocatedAmount
                         - fromCategory[1].spentAmount < amount
             THEN Null
             ELSE Some([cb[1] EXCEPT !.categories = MapSeq(@, LAMBDA cat :
                     IF cat.id = fromCategoryId
                     THEN [cat EXCEPT !.allocatedAmount = @ - amount]
                     ELSE IF cat.id = toCategoryId
                     THEN [cat EXCEPT !.allocatedAmount = @ + amount]
                     ELSE cat)])

----------------------------------------------------------------------------
(* The family document and its listeners *)

\* The family both devices belong to at the start
F1 == <<"family", "A", 0>>

\* getDoc(doc(db, "families", f)): the document, or Null when it does not exist
getDoc(f) == IF f \in DOMAIN docs THEN Some(docs[f]) ELSE Null

\* The snapshots one write of family f's document sends to device d: one for
\* each of its live onSnapshot listeners on that document
snapshotsFor(d, f, data) ==
    MapSeq(SelectSeq(unsubscribeFunctions[d],
                     LAMBDA l : l.family = f /\ l.live),
           LAMBDA l : [callback |-> l.callback,
                       budgets |-> data.budgets,
                       lastUpdatedBy |-> data.lastUpdatedBy])

\* setDoc(familyRef, data): whole-document overwrite, fanned out to listeners
setDoc(f, data) ==
    /\ docs' = (f :> data) @@ docs
    /\ inbox' = [d \in Devices |-> inbox[d] \o snapshotsFor(d, f, data)]

\* saveBudget lines 243-260: the document written from the one read
saveBudgetData(d, data, budget) ==
    LET budgets == data.budgets
        hits == {i \in 1..Len(budgets) : budgets[i].id = budget.id}
        firestoreBudget == budgetToFirestore(budget)
    IN  [data EXCEPT
            !.budgets = IF hits # {}
                        THEN [budgets EXCEPT ![CHOOSE i \in hits :
                                                  \A j \in hits : i <= j] =
                                                firestoreBudget]
                        ELSE Append(budgets, firestoreBudget),
            !.lastUpdatedBy = getMemberId(d)]

\* updateMemberInfo lines 150-173: members updated, every other field of the
\* document as read (lastUpdatedBy included)
updateMemberInfoData(d, data) ==
    [data EXCEPT !.members =
        IF \E i \in 1..Len(data.members) : data.members[i] = getMemberId(d)
        THEN data.members ELSE Append(data.members, getMemberId(d))]

\* A callback without the self-update check
isOwnUpdateNever(d, updatedBy) == FALSE

\* updatedBy === firestoreService.getMemberId() (part_000 lines 260, 321)
isOwnUpdate(d, updatedBy) == updatedBy = getMemberId(d)

\* The handler ignores the oldest undelivered snapshot of device d
ignoredHead(d) ==
    /\ inbox[d] # <<>>
    /\ isOwnUpdate(d, Head(inbox[d]).lastUpdatedBy)

\* Handling an ignored snapshot changes nothing but the inbox, so it commutes
\* with every other step: such a snapshot is handled before any other step is
\* taken (DeliverIgnored).  Every other step is taken in every order.
noIgnoredHead == \A d \in Devices : ~ignoredHead(d)

----------------------------------------------------------------------------
(* syncToFirestore *)

\* The call of syncToFirestore with the store holding `history`, up to its
\* first await (the getDoc of the first saveBudget)
\* A syncToFirestore that returns at once while another one is under way
syncToFirestoreIfIdle(d, family, history) ==
    IF family = Null \/ Len(history) = 0 \/ isSyncing[d]
    THEN UNCHANGED <<isSyncing, syncError, pushes>>
    ELSE IF svcFamilyId[d] = Null
    THEN /\ isSyncing' = [isSyncing EXCEPT ![d] = FALSE]
         /\ syncError' = [syncError EXCEPT ![d] = Some("No family ID set")]
         /\ UNCHANGED pushes
    ELSE /\ isSyncing' = [isSyncing EXCEPT ![d] = TRUE]
         /\ syncError' = [syncError EXCEPT ![d] = Null]
         /\ pushes' = [pushes EXCEPT ![d] =
                Append(@, [budgets |-> history, i |-> 1, pc |-> "getDoc",
                           family |-> svcFamilyId[d][1], data |-> Null])]

syncToFirestoreFrom(d, family, history) ==
    IF family = Null \/ Len(history) = 0
    THEN UNCHANGED <<isSyncing, syncError, pushes>>
    ELSE IF svcFamilyId[d] = Null
    THEN /\ isSyncing' = [isSyncing EXCEPT ![d] = FALSE]
         /\ syncError' = [syncError EXCEPT ![d] = Some("No family ID set")]
         /\ UNCHANGED pushes
    ELSE /\ isSyncing' = [isSyncing EXCEPT ![d] = TRUE]
         /\ syncError' = [syncError EXCEPT ![d] = Null]
         /\ pushes' = [pushes EXCEPT ![d] =
                Append(@, [budgets |-> history, i |-> 1, pc |-> "getDoc",
                           family |-> svcFamilyId[d][1], data |-> Null])]

syncToFirestoreCall(d, history) == syncToFirestoreFrom(d, familyId[d], history)

RemoveAt(s, k) == [i \in 1..(Len(s) - 1) |-> IF i < k THEN s[i] ELSE s[i + 1]]

\* saveBudget(budgets[i]) has returned: the loop goes on to the next budget, or
\* the push ends (lines 380-384)
saveBudgetReturns(d, k) ==
    LET frame == pushes[d][k]
    IN  IF frame.i < Len(frame.budgets)
        THEN /\ pushes' = [pushes EXCEPT ![d][k] =
                    [frame EXCEPT !.i = @ + 1, !.pc = "getDoc", !.data = Null,
                                 !.family = svcFamilyId[d][1]]]
             /\ UNCHANGED <<isSyncing, syncError, lastSyncTime>>
        ELSE /\ pushes' = [pushes EXCEPT ![d] = RemoveAt(@, k)]
             /\ isSyncing' = [isSyncing EXCEPT ![d] = FALSE]
             /\ lastSyncTime' = [lastSyncTime EXCEPT ![d] = @ + 1]
             /\ syncError' = [syncError EXCEPT ![d] = Null]

\* saveBudget: await getDoc(familyRef)
SaveBudgetGetDoc(d) ==
    \E k \in 1..Len(pushes[d]) :
        /\ noIgnoredHead
        /\ pushes[d][k].pc = "getDoc"
        /\ LET familyDoc == getDoc(pushes[d][k].family)
           IN  IF familyDoc # Null
               THEN /\ pushes' = [pushes EXCEPT ![d][k].pc = "setDoc",
                                                ![d][k].data = familyDoc]
                    /\ UNCHANGED <<isSyncing, syncError, lastSyncTime>>
               ELSE saveBudgetReturns(d, k)
        /\ UNCHANGED <<mergeVars, connectVars, currentBudget, budgetHistory,
                       selectedMonth,
                       isInitializing, isListenerActive, familyId, serviceVars,
                       docs, inbox, pulls, timers, ops, nextId, added, removed, lastTopup>>

\* saveBudget: await setDoc(familyRef, {...data, budgets, lastUpdatedBy})
SaveBudgetSetDoc(d) ==
    \E k \in 1..Len(pushes[d]) :
        /\ noIgnoredHead
        /\ pushes[d][k].pc = "setDoc"
        /\ LET frame == pushes[d][k]
           IN  /\ setDoc(frame.family,
                         saveBudgetData(d, frame.data[1], frame.budgets[frame.i]))
               /\ pushes' = [pushes EXCEPT ![d][k].pc = "memberGetDoc",
                                           ![d][k].data = Null]
        /\ UNCHANGED <<mergeVars, connectVars, storeVars, serviceVars, pulls, timers, ops,
                       nextId, added, removed, lastTopup>>

\* updateMemberInfo: await getDoc(familyRef)
UpdateMemberInfoGetDoc(d) ==
    \E k \in 1..Len(pushes[d]) :
        /\ noIgnoredHead
        /\ pushes[d][k].pc = "memberGetDoc"
        /\ LET familyDoc == IF svcFamilyId[d] = Null THEN Null
                            ELSE getDoc(svcFamilyId[d][1])
           IN  IF familyDoc # Null
               THEN /\ pushes' = [pushes EXCEPT ![d][k].pc = "memberSetDoc",
                                                ![d][k].data = familyDoc,
                                                ![d][k].family = svcFamilyId[d][1]]
                    /\ UNCHANGED <<isSyncing, syncError, lastSyncTime>>
               ELSE saveBudgetReturns(d, k)
        /\ UNCHANGED <<mergeVars, connectVars, currentBudget, budgetHistory,
                       selectedMonth,
                       isInitializing, isListenerActive, familyId, serviceVars,
                       docs, inbox, pulls, timers, ops, nextId, added, removed, lastTopup>>

\* updateMemberInfo: await setDoc(familyRef, {...data, members, lastUpdated}),
\* after which saveBudget returns
UpdateMemberInfoSetDoc(d) ==
    \E k \in 1..Len(pushes[d]) :
        /\ noIgnoredHead
        /\ pushes[d][k].pc = "memberSetDoc"
        /\ LET frame == pushes[d][k]
           IN  setDoc(frame.family, updateMemberInfoData(d, frame.data[1]))
        /\ saveBudgetReturns(d, k)
        /\ UNCHANGED <<mergeVars, connectVars, currentBudget, budgetHistory,
                       selectedMonth,
                       isInitializing, isListenerActive, familyId, serviceVars,
                       pulls, timers, ops, nextId, added, removed, lastTopup>>

\* The setTimeout(..., 100) callback of addManualExpense calls syncToFirestore
TimerFires(d) ==
    /\ noIgnoredHead
    /\ timers[d] > 0
    /\ timers' = [timers EXCEPT ![d] = @ - 1]
    /\ syncToFirestoreCall(d, budgetHistory[d])
    /\ UNCHANGED <<mergeVars, connectVars, currentBudget, budgetHistory,
                   selectedMonth,
                   isInitializing, lastSyncTime, isListenerActive, familyId,
                   serviceVars, docs, inbox, pulls, ops, nextId, added, removed, lastTopup>>

----------------------------------------------------------------------------
(* loadFromFirestore *)

\* The call up to await firestoreService.getBudgets(): `state` is captured
\* here, with `family` its familyId.  `failed` is history: whether the read of
\* getBudgets was rejected, which the code does not keep
loadFromFirestoreFrom(d, family) ==
    IF family = Null
    THEN UNCHANGED <<isSyncing, syncError, pulls>>
    ELSE /\ isSyncing' = [isSyncing EXCEPT ![d] = TRUE]
         /\ syncError' = [syncError EXCEPT ![d] = Null]
         /\ pulls' = [pulls EXCEPT ![d] =
                Append(@, [state |-> [budgetHistory |-> budgetHistory[d],
                                      currentBudget |-> currentBudget[d],
                                      selectedMonth |-> selectedMonth[d]],
                           pc |-> "getBudgets", remoteBudgets |-> <<>>,
                           failed |-> FALSE])]

\* The user pulls by hand
LoadFromFirestore(d) ==
    /\ noIgnoredHead
    /\ ops < MaxOps
    /\ familyId[d] # Null
    /\ loadFromFirestoreFrom(d, familyId[d])
    /\ ops' = ops + 1
    /\ UNCHANGED <<mergeVars, connectVars, currentBudget, budgetHistory,
                   selectedMonth,
                   isInitializing, lastSyncTime, isListenerActive, familyId,
                   serviceVars, docs, inbox, pushes, timers, nextId, added,
                   removed, lastTopup>>

\* getBudgets lines 272-288: the document is read
GetBudgets(d) ==
    \E k \in 1..Len(pulls[d]) :
        /\ noIgnoredHead
        /\ pulls[d][k].pc = "getBudgets"
        /\ LET familyDoc == IF svcFamilyId[d] = Null THEN Null
                            ELSE getDoc(svcFamilyId[d][1])
               remoteBudgets == IF familyDoc = Null THEN <<>>
                                ELSE MapSeq(familyDoc[1].budgets, budgetFromFirestore)
           IN  pulls' = [pulls EXCEPT ![d][k].pc = "commit",
                                      ![d][k].remoteBudgets = remoteBudgets]
        /\ UNCHANGED <<mergeVars, connectVars, storeVars, serviceVars, docs,
                       inbox, pushes,
                       timers, ops, nextId, added, removed, lastTopup>>

\* getBudgets lines 284-287: the awaited getDoc rejects, the catch logs the
\* error and returns []
GetBudgetsFails(d) ==
    \E k \in 1..Len(pulls[d]) :
        /\ noIgnoredHead
        /\ pulls[d][k].pc = "getBudgets"
        /\ svcFamilyId[d] # Null
        /\ pulls' = [pulls EXCEPT ![d][k].pc = "commit",
                                  ![d][k].remoteBudgets = <<>>,
                                  ![d][k].failed = TRUE]
        /\ UNCHANGED <<mergeVars, connectVars, storeVars, serviceVars, docs,
                       inbox, pushes,
                       timers, ops, nextId, added, removed, lastTopup>>

\* A pull that takes the fetched budgets as they are
loadReplaces(d, frame) == frame.remoteBudgets

\* lines 404-407: the merge of the captured state with the fetched budgets
loadMerged(d, frame) ==
    mergeRemoteWithLocal(frame.state.budgetHistory, frame.remoteBudgets)

\* lines 403-418: the await returns and the merged result is committed
LoadCommit(d) ==
    \E k \in 1..Len(pulls[d]) :
        /\ noIgnoredHead
        /\ pulls[d][k].pc = "commit"
        /\ LET frame == pulls[d][k]
               mergedBudgets == loadMerged(d, frame)
           IN  /\ budgetHistory' = [budgetHistory EXCEPT ![d] = mergedBudgets]
               /\ currentBudget' = [currentBudget EXCEPT ![d] =
                      findCurrentBudget(mergedBudgets, frame.state.selectedMonth,
                                        frame.state.currentBudget)]
        /\ pulls' = [pulls EXCEPT ![d] = RemoveAt(@, k)]
        /\ isSyncing' = [isSyncing EXCEPT ![d] = FALSE]
        /\ lastSyncTime' = [lastSyncTime EXCEPT ![d] = @ + 1]
        /\ syncError' = [syncError EXCEPT ![d] = Null]
        /\ UNCHANGED <<mergeVars, connectVars, selectedMonth, isInitializing,
                       isListenerActive,
                       familyId, serviceVars, docs, inbox, pushes, timers, ops,
                       nextId, added, removed, lastTopup>>

----------------------------------------------------------------------------
(* The subscription callbacks *)

\* The callback registered by initializeFirestore (lines 255-276): what it
\* sets, or Null when it returns early
initializeFirestoreCallback(d, budgets, updatedBy) ==
    IF isOwnUpdate(d, updatedBy) THEN Null
    ELSE LET mergedBudgets == mergeRemoteWithLocal(budgetHistory[d], budgets)
         IN  Some([budgetHistory |-> mergedBudgets,
                   currentBudget |-> findCurrentBudget(mergedBudgets,
                                         selectedMonth[d], currentBudget[d])])

\* The callback registered by createOrJoinFamily (lines 316-332)
createOrJoinFamilyCallback(d, budgets, updatedBy) ==
    IF isOwnUpdate(d, updatedBy) THEN Null
    ELSE Some([budgetHistory |-> budgets,
               currentBudget |-> findCurrentBudget(budgets, selectedMonth[d],
                                                   currentBudget[d])])

\* A callback that pushes what it has set
callbackPushes(d, result) ==
    IF result = Null THEN UNCHANGED <<isSyncing, syncError, pushes>>
    ELSE syncToFirestoreCall(d, result[1].budgetHistory)

\* Both callbacks end with their set(...): they call neither syncToFirestore
\* nor the service
callbackSync(d, result) == UNCHANGED <<isSyncing, syncError, pushes>>

\* The onSnapshot handler of subscribeToFamilyUpdates (lines 304-314) runs
\* the callback on the oldest undelivered snapshot
Deliver(d) ==
    /\ inbox[d] # <<>>
    /\ LET snapshot == Head(inbox[d])
           budgets == MapSeq(snapshot.budgets, budgetFromFirestore)
           result == IF snapshot.callback = "initializeFirestore"
                     THEN initializeFirestoreCallback(d, budgets, snapshot.lastUpdatedBy)
                     ELSE createOrJoinFamilyCallback(d, budgets, snapshot.lastUpdatedBy)
       IN  /\ IF result = Null
              THEN UNCHANGED <<budgetHistory, currentBudget, lastSyncTime>>
              ELSE /\ budgetHistory' = [budgetHistory EXCEPT ![d] =
                          result[1].budgetHistory]
                   /\ currentBudget' = [currentBudget EXCEPT ![d] =
                          result[1].currentBudget]
                   /\ lastSyncTime' = [lastSyncTime EXCEPT ![d] = @ + 1]
           /\ callbackSync(d, result)
    /\ inbox' = [inbox EXCEPT ![d] = Tail(@)]
    /\ UNCHANGED <<mergeVars, connectVars, selectedMonth, isInitializing,
                   isListenerActive, familyId, serviceVars, docs, pulls,
                   timers, ops, nextId, added, removed, lastTopup>>

DeliverIgnored(d) == ignoredHead(d) /\ Deliver(d)

DeliverHandled(d) == noIgnoredHead /\ Deliver(d)

----------------------------------------------------------------------------
(* The mutators.  Each is one user operation: its set(...) body, then the
   auto-sync that follows it in the same turn of the event loop. *)

Months == {"m1", "m2"}

\* An id that names no category, template or expense
NoId == <<"none">>

IdsOf(list) == {list[i].id : i \in 1..Len(list)}

categoryIdsOf(d) ==
    IF currentBudget[d] = Null THEN {NoId} ELSE IdsOf(currentBudget[d][1].categories)

\* The category of the given type in the current budget of d
categoryIdOf(d, type) ==
    IF currentBudget[d] = Null THEN {NoId}
    ELSE IdsOf(SelectSeq(currentBudget[d][1].categories,
                         LAMBDA cat : cat.type = type))

expenseIdsOf(d) ==
    IF currentBudget[d] = Null THEN {NoId} ELSE IdsOf(currentBudget[d][1].expenses)

fixedExpenseIdsOf(d) ==
    IF currentBudget[d] = Null THEN {NoId}
    ELSE IdsOf(currentBudget[d][1].fixedExpenses)

\* set((state) => ...): `updated` is the body's budget, Null for `return state`
commit(d, updated) ==
    /\ currentBudget' = [currentBudget EXCEPT ![d] =
            IF updated = Null THEN @ ELSE updated]
    /\ budgetHistory' = [budgetHistory EXCEPT ![d] =
            IF updated = Null THEN @
            ELSE replaceBudget(@, currentBudget[d][1].id, updated[1])]

\* A push that is started with the list as it was before the change
autoSyncBeforeCommit(d) ==
    IF familyId[d] # Null
    THEN syncToFirestoreCall(d, budgetHistory[d])
    ELSE UNCHANGED <<isSyncing, syncError, pushes>>

\* if (get().familyId) await get().syncToFirestore()
autoSync(d) ==
    IF familyId[d] # Null
    THEN syncToFirestoreCall(d, budgetHistory'[d])
    ELSE UNCHANGED <<isSyncing, syncError, pushes>>

userOp(d) ==
    /\ noIgnoredHead
    /\ ops < MaxOps
    /\ ops' = ops + 1

mutatorFrame ==
    UNCHANGED <<mergeVars, connectVars, selectedMonth, isInitializing, lastSyncTime,
                isListenerActive, familyId, serviceVars, docs, inbox, pulls>>

\* BudgetSetup offers the form only while there is no current budget
\* (part_001 lines 58-84) and calls createMonthlyBudget(salary, selectedMonth)
CreateMonthlyBudget(d) ==
    /\ userOp(d)
    /\ currentBudget[d] = Null
    /\ LET created == newBudget(d, nextId[d], 1000, selectedMonth[d], ops + 1)
       IN  /\ currentBudget' = [currentBudget EXCEPT ![d] = Some(created)]
           /\ budgetHistory' = [budgetHistory EXCEPT ![d] = Append(@, created)]
    /\ nextId' = [nextId EXCEPT ![d] = @ + 1]
    /\ autoSync(d)
    /\ mutatorFrame
    /\ UNCHANGED <<timers, added, removed, lastTopup>>

UpdateCategoryAllocation(d) ==
    /\ userOp(d)
    /\ \E categoryId \in categoryIdOf(d, "grocery") :
          commit(d, updateCategoryAllocationBody(currentBudget[d], categoryId, 300))
    /\ autoSync(d)
    /\ mutatorFrame
    /\ UNCHANGED <<timers, nextId, added, removed, lastTopup>>

AddFixedExpense(d) ==
    /\ userOp(d)
    /\ \E categoryId \in categoryIdOf(d, "fixed_expenses") :
          commit(d, addFixedExpenseBody(currentBudget[d],
                       [id |-> <<"fixed", 0, d, nextId[d]>>,
                        categoryId |-> categoryId, name |-> "Rent",
                        amount |-> 700, isCompleted |-> FALSE,
                        dueDate |-> Ymd(ops + 1)]))
    /\ nextId' = [nextId EXCEPT ![d] = @ + 1]
    /\ autoSync(d)
    /\ mutatorFrame
    /\ UNCHANGED <<timers, added, removed, lastTopup>>

MarkFixedExpenseComplete(d) ==
    /\ userOp(d)
    /\ \E expenseId \in fixedExpenseIdsOf(d) :
          LET manualExpenseId == <<"expense", d, nextId[d]>>
              updated == markFixedExpenseCompleteBody(currentBudget[d], expenseId,
                                                      manualExpenseId, ops + 1)
          IN  /\ commit(d, updated)
              /\ added' = [added EXCEPT ![d] =
                     IF updated = Null THEN @
                     ELSE @ \cup {[id |-> manualExpenseId, budget |-> updated[1].id,
                                   template |-> expenseId]}]
    /\ nextId' = [nextId EXCEPT ![d] = @ + 1]
    /\ autoSync(d)
    /\ mutatorFrame
    /\ UNCHANGED <<timers, removed, lastTopup>>

\* The push of addManualExpense is started by a 100 ms timer, not in the call
AddManualExpense(d) ==
    /\ userOp(d)
    /\ \E categoryId \in categoryIdOf(d, "grocery") :
          LET expenseId == <<"expense", d, nextId[d]>>
              newExpense == [id |-> expenseId, categoryId |-> categoryId,
                             amount |-> 100, description |-> "added",
                             date |-> Ymd(ops + 1), type |-> "manual"]
              updated == addManualExpenseBody(currentBudget[d], newExpense)
          IN  /\ commit(d, updated)
              /\ added' = [added EXCEPT ![d] =
                     IF updated = Null THEN @
                     ELSE @ \cup {[id |-> expenseId, budget |-> updated[1].id,
                                   template |-> NoId]}]
    /\ nextId' = [nextId EXCEPT ![d] = @ + 1]
    /\ timers' = [timers EXCEPT ![d] = IF familyId[d] # Null THEN @ + 1 ELSE @]
    /\ mutatorFrame
    /\ UNCHANGED <<isSyncing, syncError, pushes, removed, lastTopup>>

EditExpense(d) ==
    /\ userOp(d)
    /\ \E expenseId \in expenseIdsOf(d),
          categoryId \in categoryIdOf(d, "fixed_expenses") :
          commit(d, editExpenseBody(currentBudget[d], expenseId, categoryId, 50,
                                    "edited", Ymd(ops + 1)))
    /\ autoSync(d)
    /\ mutatorFrame
    /\ UNCHANGED <<timers, nextId, added, removed, lastTopup>>

DeleteExpense(d) ==
    /\ userOp(d)
    /\ \E expenseId \in expenseIdsOf(d) :
          LET updated == deleteExpenseBody(currentBudget[d], expenseId)
          IN  /\ commit(d, updated)
              /\ removed' = [removed EXCEPT ![d] =
                     IF updated = Null THEN @ ELSE @ \cup {expenseId}]
    /\ autoSync(d)
    /\ mutatorFrame
    /\ UNCHANGED <<timers, nextId, added, lastTopup>>

\* The amount the top-up dialog is asked for
TopupAmount == 200

TopupCategory(d) ==
    /\ userOp(d)
    /\ \E fromCategoryId \in categoryIdsOf(d),
          toCategoryId \in categoryIdsOf(d) :
          /\ commit(d, topupCategoryBody(currentBudget[d], fromCategoryId,
                                         toCategoryId, TopupAmount))
          /\ lastTopup' = [lastTopup EXCEPT ![d] =
                 Some([fromCategoryId |-> fromCategoryId,
                       toCategoryId |-> toCategoryId,
                       amount |-> TopupAmount, at |-> ops + 1])]
    /\ autoSync(d)
    /\ mutatorFrame
    /\ UNCHANGED <<timers, nextId, added, removed>>

\* lines 428-439
SetSelectedMonth(d) ==
    /\ userOp(d)
    /\ \E month \in Months :
          /\ selectedMonth' = [selectedMonth EXCEPT ![d] = month]
          /\ currentBudget' = [currentBudget EXCEPT ![d] =
                 Find(budgetHistory[d], LAMBDA b : b.month = month)]
    /\ UNCHANGED <<mergeVars, connectVars, budgetHistory, isInitializing,
                   isSyncing, syncError,
                   lastSyncTime, isListenerActive, familyId, serviceVars, docs,
                   inbox, asyncVars, nextId, added, removed, lastTopup>>

----------------------------------------------------------------------------
(* Two connected devices sharing one budget *)

\* The budget device A created before the behaviour starts
X0 == newBudget("A", 0, 1000, "m1", 0)

MergeIdle ==
    /\ mLocal = <<>>
    /\ mRemote = <<>>
    /\ mMerged = <<>> /\ mAgain = <<>> /\ mSwapped = <<>> /\ mSelf = <<>>
    /\ mDone = TRUE
    /\ RecalcIdle

\* Both devices are connected to family F1, each through initializeFirestore
\* (after a reload) or createOrJoinFamily; A holds the budget it created and
\* pushed, B the copy it pulled; nothing is in flight
Init ==
    /\ MergeIdle
    /\ budgetHistory = [d \in Devices |->
            IF d = "A" THEN <<X0>>
            ELSE <<budgetFromFirestore(budgetToFirestore(X0))>>]
    /\ currentBudget = [d \in Devices |->
            IF d = "A" THEN Some(X0)
            ELSE Some(budgetFromFirestore(budgetToFirestore(X0)))]
    /\ selectedMonth = [d \in Devices |-> "m1"]
    /\ isInitializing = [d \in Devices |-> FALSE]
    /\ isSyncing = [d \in Devices |-> FALSE]
    /\ syncError = [d \in Devices |-> Null]
    /\ lastSyncTime = [d \in Devices |-> 1]
    /\ isListenerActive = [d \in Devices |-> TRUE]
    /\ familyId = [d \in Devices |-> Some(F1)]
    /\ svcFamilyId = [d \in Devices |-> Some(F1)]
    /\ isSubscribed = [d \in Devices |-> TRUE]
    /\ unsubscribeFunctions \in
          [Devices -> {<<[family |-> F1, callback |-> c, live |-> TRUE,
                             call |-> 0]>> :
                          c \in {"initializeFirestore", "createOrJoinFamily"}}]
    /\ docs = (F1 :> [id |-> F1, budgets |-> <<budgetToFirestore(X0)>>,
                      lastUpdatedBy |-> "A", members |-> <<"A", "B">>])
    /\ inbox = [d \in Devices |-> <<>>]
    /\ pushes = [d \in Devices |-> <<>>]
    /\ pulls = [d \in Devices |-> <<>>]
    /\ timers = [d \in Devices |-> 0]
    /\ connects = [d \in Devices |-> <<>>]
    /\ storedFamilyId = [d \in Devices |-> Some(F1)]
    /\ ops = 0
    /\ nextId = [d \in Devices |-> 1]
    /\ added = [d \in Devices |-> {}]
    /\ lastTopup = [d \in Devices |-> Null]
    /\ removed = [d \in Devices |-> {}]

Next ==
    \E d \in Devices :
        \/ DeliverIgnored(d)
        \/ DeliverHandled(d)
        \/ CreateMonthlyBudget(d)
        \/ UpdateCategoryAllocation(d)
        \/ AddFixedExpense(d)
        \/ MarkFixedExpenseComplete(d)
        \/ AddManualExpense(d)
        \/ EditExpense(d)
        \/ DeleteExpense(d)
        \/ TopupCategory(d)
        \/ SetSelectedMonth(d)
        \/ LoadFromFirestore(d)
        \/ TimerFires(d)
        \/ SaveBudgetGetDoc(d)
        \/ SaveBudgetSetDoc(d)
        \/ UpdateMemberInfoGetDoc(d)
        \/ UpdateMemberInfoSetDoc(d)
        \/ GetBudgets(d)
        \/ LoadCommit(d)

Spec == Init /\ [][Next]_vars

\* Two connected devices whose users add expenses and then stop.
EchoNext ==
    \E d \in Devices :
        \/ AddManualExpense(d)
        \/ DeliverIgnored(d)
        \/ DeliverHandled(d)
        \/ TimerFires(d)
        \/ SaveBudgetGetDoc(d)
        \/ SaveBudgetSetDoc(d)
        \/ UpdateMemberInfoGetDoc(d)
        \/ UpdateMemberInfoSetDoc(d)

\* What goes on without the user and is not put off for ever: a timer fires,
\* a remote call of a push under way returns, a discarded snapshot is taken
\* from the queue
EchoReturns ==
    \E d \in Devices :
        \/ DeliverIgnored(d)
        \/ TimerFires(d)
        \/ SaveBudgetGetDoc(d)
        \/ SaveBudgetSetDoc(d)
        \/ UpdateMemberInfoGetDoc(d)
        \/ UpdateMemberInfoSetDoc(d)

\* The step of DeliverHandled as the queue sees it: the oldest snapshot is
\* taken from the queue of a device.  It is possible exactly when
\* DeliverHandled is.
EchoHandles ==
    \E d \in Devices :
        /\ noIgnoredHead
        /\ inbox[d] # <<>>
        /\ inbox' = [inbox EXCEPT ![d] = Tail(@)]

SpecEcho ==
    Init /\ [][EchoNext]_vars /\ WF_vars(EchoReturns) /\ WF_inbox(EchoHandles)

----------------------------------------------------------------------------
(* Connecting: initializeFirestore and createOrJoinFamily.  A call is a frame
   of connects[d]; its position in the sequence is the order of invocation,
   and a finished call stays in the sequence with pc "done". *)

\* The most connect calls of one device in one behaviour
MaxCalls == 2

ConnectDevices == {"A"}

\* The document createOrJoinFamily writes for a new family (lines 111-126)
familyData(d, newFamilyId) ==
    [id |-> newFamilyId, budgets |-> <<>>, lastUpdatedBy |-> getMemberId(d),
     members |-> <<getMemberId(d)>>]

\* The first snapshot onSnapshot sends a new listener: the document as it is
initialSnapshot(family, callback) ==
    IF getDoc(family) = Null THEN <<>>
    ELSE <<[callback |-> callback, budgets |-> docs[family].budgets,
            lastUpdatedBy |-> docs[family].lastUpdatedBy]>>

\* subscribeToFamilyUpdates, called by call number k while the service's
\* familyId is serviceFamilyId
subscribeToFamilyUpdates(d, serviceFamilyId, callback, k) ==
    IF serviceFamilyId = Null \/ isSubscribed[d]
    THEN UNCHANGED <<isSubscribed, unsubscribeFunctions, inbox>>
    ELSE /\ isSubscribed' = [isSubscribed EXCEPT ![d] = TRUE]
         /\ unsubscribeFunctions' = [unsubscribeFunctions EXCEPT ![d] =
                Append(@, [family |-> serviceFamilyId[1], callback |-> callback,
                           live |-> TRUE, call |-> k])]
         /\ inbox' = [inbox EXCEPT ![d] =
                @ \o initialSnapshot(serviceFamilyId[1], callback)]

\* A connect call.  pulled counts its calls of loadFromFirestore and
\* localBudgets is the length of budgetHistory when it decided what to do
\* after registering the listener; both are history, the code keeps neither
connectFrame(op, pc, family, after) ==
    [op |-> op, pc |-> pc, family |-> family, after |-> after, data |-> Null,
     state |-> Null, pulled |-> 0, localBudgets |-> 0]

\* initializeFirestore up to await firestoreService.initialize(), which has
\* read localStorage and, when a family id is stored, awaits getDoc
InitializeFirestore(d) ==
    /\ noIgnoredHead
    /\ Len(connects[d]) < MaxCalls
    /\ IF isInitializing[d] \/ isListenerActive[d]
       THEN /\ connects' = [connects EXCEPT ![d] =
                   Append(@, connectFrame("initializeFirestore", "done", Null, "done"))]
            /\ UNCHANGED <<isInitializing, syncError>>
       ELSE /\ isInitializing' = [isInitializing EXCEPT ![d] = TRUE]
            /\ syncError' = [syncError EXCEPT ![d] = Null]
            /\ connects' = [connects EXCEPT ![d] =
                   Append(@, [connectFrame("initializeFirestore",
                                  IF storedFamilyId[d] = Null
                                  THEN "afterInitialize" ELSE "initialize",
                                  storedFamilyId[d], "afterInitialize")
                              EXCEPT !.state =
                                  Some([familyId |-> familyId[d],
                                        isListenerActive |-> isListenerActive[d]])])]
    /\ UNCHANGED <<mergeVars, currentBudget, budgetHistory, selectedMonth,
                   isSyncing, lastSyncTime, isListenerActive, familyId,
                   serviceVars, docs, inbox, asyncVars, storedFamilyId, ops,
                   nextId, added, removed, lastTopup>>

\* firestoreService.initialize lines 425-434: the stored family is looked up
InitializeGetDoc(d) ==
    \E k \in 1..Len(connects[d]) :
        /\ noIgnoredHead
        /\ connects[d][k].pc = "initialize"
        /\ LET frame == connects[d][k]
           IN  IF getDoc(frame.family[1]) # Null
               THEN /\ svcFamilyId' = [svcFamilyId EXCEPT ![d] = frame.family]
                    /\ connects' = [connects EXCEPT ![d][k].pc = "memberGetDoc"]
                    /\ UNCHANGED storedFamilyId
               ELSE /\ svcFamilyId' = [svcFamilyId EXCEPT ![d] = Null]
                    /\ storedFamilyId' = [storedFamilyId EXCEPT ![d] = Null]
                    /\ connects' = [connects EXCEPT ![d][k].pc = "afterInitialize"]
        /\ UNCHANGED <<mergeVars, storeVars, isSubscribed, unsubscribeFunctions,
                       docs, inbox, asyncVars, ops, nextId, added, removed, lastTopup>>

\* updateMemberInfo called from initialize or createOrJoinFamily: getDoc
ConnectMemberGetDoc(d) ==
    \E k \in 1..Len(connects[d]) :
        /\ noIgnoredHead
        /\ connects[d][k].pc = "memberGetDoc"
        /\ LET frame == connects[d][k]
               familyDoc == getDoc(frame.family[1])
           IN  connects' = [connects EXCEPT ![d][k] =
                   IF familyDoc # Null
                   THEN [frame EXCEPT !.pc = "memberSetDoc", !.data = familyDoc]
                   ELSE [frame EXCEPT !.pc = frame.after]]
        /\ UNCHANGED <<mergeVars, storeVars, serviceVars, docs, inbox, asyncVars,
                       storedFamilyId, ops, nextId, added, removed, lastTopup>>

\* updateMemberInfo called from initialize or createOrJoinFamily: setDoc
ConnectMemberSetDoc(d) ==
    \E k \in 1..Len(connects[d]) :
        /\ noIgnoredHead
        /\ connects[d][k].pc = "memberSetDoc"
        /\ LET frame == connects[d][k]
           IN  /\ setDoc(frame.family[1], updateMemberInfoData(d, frame.data[1]))
               /\ connects' = [connects EXCEPT ![d][k] =
                      [frame EXCEPT !.pc = frame.after, !.data = Null]]
        /\ UNCHANGED <<mergeVars, storeVars, serviceVars, asyncVars,
                       storedFamilyId, ops, nextId, added, removed, lastTopup>>

\* initializeFirestore lines 226-285, after initialize() has returned
AfterInitialize(d) ==
    \E k \in 1..Len(connects[d]) :
        /\ noIgnoredHead
        /\ connects[d][k].pc = "afterInitialize"
        /\ LET frame == connects[d][k]
               state == frame.state[1]
               \* getFamilyId(): the instance variable, else localStorage
               serviceFamilyId == IF svcFamilyId[d] # Null THEN svcFamilyId[d]
                                  ELSE storedFamilyId[d]
               family == IF state.familyId # Null THEN state.familyId
                         ELSE serviceFamilyId
           IN  /\ svcFamilyId' = [svcFamilyId EXCEPT ![d] = serviceFamilyId]
               /\ familyId' = [familyId EXCEPT ![d] = family]
               /\ isInitializing' = [isInitializing EXCEPT ![d] = FALSE]
               /\ IF family # Null /\ ~state.isListenerActive
                  THEN /\ isListenerActive' = [isListenerActive EXCEPT ![d] = TRUE]
                       /\ subscribeToFamilyUpdates(d, serviceFamilyId,
                                                   "initializeFirestore", k)
                       /\ loadFromFirestoreFrom(d, family)
                  ELSE UNCHANGED <<isListenerActive, isSubscribed,
                                   unsubscribeFunctions, inbox, isSyncing,
                                   syncError, pulls>>
               /\ connects' = [connects EXCEPT ![d][k] =
                      [frame EXCEPT !.pc = "done",
                           !.pulled = @ + Len(pulls'[d]) - Len(pulls[d]),
                           !.localBudgets = Len(budgetHistory[d])]]
        /\ UNCHANGED <<mergeVars, currentBudget, budgetHistory, selectedMonth,
                       lastSyncTime, docs, pushes, timers, storedFamilyId, ops,
                       nextId, added, removed, lastTopup>>

\* createOrJoinFamily up to the first await of the service's createOrJoinFamily
CreateOrJoinFamily(d, familyIdArg) ==
    /\ noIgnoredHead
    /\ Len(connects[d]) < MaxCalls
    /\ isSyncing' = [isSyncing EXCEPT ![d] = TRUE]
    /\ syncError' = [syncError EXCEPT ![d] = Null]
    /\ IF familyIdArg # Null
       THEN /\ connects' = [connects EXCEPT ![d] =
                   Append(@, connectFrame("createOrJoinFamily", "join",
                                          familyIdArg, "resume"))]
            /\ UNCHANGED nextId
       ELSE /\ connects' = [connects EXCEPT ![d] =
                   Append(@, connectFrame("createOrJoinFamily", "create",
                                          Some(<<"family", d, nextId[d]>>),
                                          "resume"))]
            /\ nextId' = [nextId EXCEPT ![d] = @ + 1]
    /\ UNCHANGED <<mergeVars, currentBudget, budgetHistory, selectedMonth,
                   isInitializing, lastSyncTime, isListenerActive, familyId,
                   serviceVars, docs, inbox, asyncVars, storedFamilyId, ops,
                   added, removed, lastTopup>>

\* service createOrJoinFamily lines 128-133: the new family is written
CreateFamilySetDoc(d) ==
    \E k \in 1..Len(connects[d]) :
        /\ noIgnoredHead
        /\ connects[d][k].pc = "create"
        /\ LET frame == connects[d][k]
           IN  /\ setDoc(frame.family[1], familyData(d, frame.family[1]))
               /\ svcFamilyId' = [svcFamilyId EXCEPT ![d] = frame.family]
               /\ storedFamilyId' = [storedFamilyId EXCEPT ![d] = frame.family]
        /\ connects' = [connects EXCEPT ![d][k].pc = "resume"]
        /\ UNCHANGED <<mergeVars, storeVars, isSubscribed, unsubscribeFunctions,
                       asyncVars, ops, nextId, added, removed, lastTopup>>

\* A join that takes the family id before it has looked for the document
familyNotFoundAdopted(d, k) ==
    /\ syncError' = [syncError EXCEPT ![d] = Some("Family not found")]
    /\ isSyncing' = [isSyncing EXCEPT ![d] = FALSE]
    /\ connects' = [connects EXCEPT ![d][k].pc = "done"]
    /\ svcFamilyId' = [svcFamilyId EXCEPT ![d] = connects[d][k].family]
    /\ storedFamilyId' = [storedFamilyId EXCEPT ![d] = connects[d][k].family]

\* The service throws "Family not found" before it has set anything
\* (firestoreService.ts lines 104-106); the store's catch records the message
\* and rethrows (part_000 lines 342-352)
familyNotFound(d, k) ==
    /\ syncError' = [syncError EXCEPT ![d] = Some("Family not found")]
    /\ isSyncing' = [isSyncing EXCEPT ![d] = FALSE]
    /\ connects' = [connects EXCEPT ![d][k].pc = "done"]
    /\ UNCHANGED <<svcFamilyId, storedFamilyId>>

\* service createOrJoinFamily lines 95-105: the family to join is looked up
JoinGetDoc(d) ==
    \E k \in 1..Len(connects[d]) :
        /\ noIgnoredHead
        /\ connects[d][k].pc = "join"
        /\ LET frame == connects[d][k]
           IN  IF getDoc(frame.family[1]) # Null
               THEN /\ svcFamilyId' = [svcFamilyId EXCEPT ![d] = frame.family]
                    /\ storedFamilyId' = [storedFamilyId EXCEPT ![d] = frame.family]
                    /\ connects' = [connects EXCEPT ![d][k].pc = "memberGetDoc"]
                    /\ UNCHANGED <<isSyncing, syncError>>
               ELSE familyNotFound(d, k)
        /\ UNCHANGED <<mergeVars, currentBudget, budgetHistory, selectedMonth,
                       isInitializing, lastSyncTime, isListenerActive, familyId,
                       isSubscribed, unsubscribeFunctions, docs, inbox, asyncVars,
                       ops, nextId, added, removed, lastTopup>>

\* A createOrJoinFamily that pulls whatever the device holds
pushOrPullAlwaysPulls(d, family) ==
    /\ loadFromFirestoreFrom(d, family)
    /\ UNCHANGED pushes

\* createOrJoinFamily lines 335-342: a device with budgets pushes them, a
\* device without any pulls
pushOrPull(d, family) ==
    IF Len(budgetHistory[d]) > 0
    THEN /\ syncToFirestoreFrom(d, family, budgetHistory[d])
         /\ UNCHANGED pulls
    ELSE /\ loadFromFirestoreFrom(d, family)
         /\ UNCHANGED pushes

\* createOrJoinFamily lines 303-342, after the service call has returned
ConnectResume(d) ==
    \E k \in 1..Len(connects[d]) :
        /\ noIgnoredHead
        /\ connects[d][k].pc = "resume"
        /\ LET frame == connects[d][k]
           IN  /\ familyId' = [familyId EXCEPT ![d] = frame.family]
               /\ IF ~isListenerActive[d]
                  THEN /\ isListenerActive' = [isListenerActive EXCEPT ![d] = TRUE]
                       /\ subscribeToFamilyUpdates(d, svcFamilyId[d],
                                                   "createOrJoinFamily", k)
                  ELSE UNCHANGED <<isListenerActive, isSubscribed,
                                   unsubscribeFunctions, inbox>>
               /\ pushOrPull(d, frame.family)
               /\ connects' = [connects EXCEPT ![d][k] =
                      [frame EXCEPT !.pc = "done",
                           !.pulled = @ + Len(pulls'[d]) - Len(pulls[d]),
                           !.localBudgets = Len(budgetHistory[d])]]
        /\ UNCHANGED <<mergeVars, currentBudget, budgetHistory, selectedMonth,
                       isInitializing, lastSyncTime, svcFamilyId, docs, timers,
                       storedFamilyId, ops, nextId, added, removed, lastTopup>>

\* The budget another member put into family F1
XB == newBudget("B", 0, 1000, "m1", 0)

\* Device A has just loaded the page: its store is rehydrated from
\* localStorage (with or without a family, with or without a budget of its
\* own), its service is fresh.  Family F1 exists; its other member is idle.
ConnectInit ==
    /\ MergeIdle
    /\ \E connected \in BOOLEAN, hasBudget \in BOOLEAN :
          /\ budgetHistory = [d \in Devices |->
                 IF d = "B" THEN <<XB>>
                 ELSE IF hasBudget THEN <<X0>> ELSE <<>>]
          /\ currentBudget = [d \in Devices |->
                 IF d = "B" THEN Some(XB)
                 ELSE IF hasBudget THEN Some(X0) ELSE Null]
          /\ familyId = [d \in Devices |->
                 IF d = "B" \/ connected THEN Some(F1) ELSE Null]
          /\ storedFamilyId = [d \in Devices |->
                 IF d = "B" \/ connected THEN Some(F1) ELSE Null]
          /\ docs = (F1 :> [id |-> F1,
                            budgets |-> <<budgetToFirestore(XB)>> \o
                                (IF connected /\ hasBudget
                                 THEN <<budgetToFirestore(X0)>> ELSE <<>>),
                            lastUpdatedBy |-> "B",
                            members |-> IF connected THEN <<"B", "A">>
                                        ELSE <<"B">>])
    /\ selectedMonth = [d \in Devices |-> "m1"]
    /\ isInitializing = [d \in Devices |-> FALSE]
    /\ isSyncing = [d \in Devices |-> FALSE]
    /\ syncError = [d \in Devices |-> Null]
    /\ lastSyncTime = [d \in Devices |-> 0]
    /\ isListenerActive = [d \in Devices |-> FALSE]
    /\ svcFamilyId = [d \in Devices |-> IF d = "B" THEN Some(F1) ELSE Null]
    /\ isSubscribed = [d \in Devices |-> FALSE]
    /\ unsubscribeFunctions = [d \in Devices |-> <<>>]
    /\ inbox = [d \in Devices |-> <<>>]
    /\ pushes = [d \in Devices |-> <<>>]
    /\ pulls = [d \in Devices |-> <<>>]
    /\ timers = [d \in Devices |-> 0]
    /\ connects = [d \in Devices |-> <<>>]
    /\ ops = 0
    /\ nextId = [d \in Devices |-> 1]
    /\ added = [d \in Devices |-> {}]
    /\ lastTopup = [d \in Devices |-> Null]
    /\ removed = [d \in Devices |-> {}]

ConnectNext ==
    \E d \in ConnectDevices :
        \/ InitializeFirestore(d)
        \/ \E familyIdArg \in {Null, Some(F1)} : CreateOrJoinFamily(d, familyIdArg)
        \/ InitializeGetDoc(d)
        \/ ConnectMemberGetDoc(d)
        \/ ConnectMemberSetDoc(d)
        \/ AfterInitialize(d)
        \/ CreateFamilySetDoc(d)
        \/ JoinGetDoc(d)
        \/ ConnectResume(d)
        \/ DeliverIgnored(d)
        \/ DeliverHandled(d)
        \/ SaveBudgetGetDoc(d)
        \/ SaveBudgetSetDoc(d)
        \/ UpdateMemberInfoGetDoc(d)
        \/ UpdateMemberInfoSetDoc(d)
        \/ GetBudgets(d)
        \/ LoadCommit(d)

SpecConnect == ConnectInit /\ [][ConnectNext]_vars

----------------------------------------------------------------------------
(* Disconnecting: firestoreService.cleanup() between the connect calls of a
   device *)

\* cleanup (firestoreService.ts lines 390-401): every unsubscribe function is
\* called, the list is emptied and isSubscribed is cleared.  A detached
\* listener is sent nothing more, undelivered snapshots included.  The store
\* is not told.
Cleanup(d) ==
    /\ noIgnoredHead
    /\ unsubscribeFunctions' = [unsubscribeFunctions EXCEPT ![d] = <<>>]
    /\ isSubscribed' = [isSubscribed EXCEPT ![d] = FALSE]
    /\ inbox' = [inbox EXCEPT ![d] = <<>>]
    /\ UNCHANGED <<mergeVars, connectVars, currentBudget, budgetHistory,
                   selectedMonth, isInitializing, isSyncing, syncError,
                   lastSyncTime, isListenerActive, familyId, svcFamilyId,
                   docs, asyncVars, ops, nextId, added, removed, lastTopup>>

DisconnectNext ==
    \E d \in ConnectDevices :
        \/ Cleanup(d)
        \/ InitializeFirestore(d)
        \/ \E familyIdArg \in {Null, Some(F1)} : CreateOrJoinFamily(d, familyIdArg)
        \/ InitializeGetDoc(d)
        \/ ConnectMemberGetDoc(d)
        \/ ConnectMemberSetDoc(d)
        \/ AfterInitialize(d)
        \/ CreateFamilySetDoc(d)
        \/ JoinGetDoc(d)
        \/ ConnectResume(d)
        \/ DeliverIgnored(d)
        \/ DeliverHandled(d)
        \/ SaveBudgetGetDoc(d)
        \/ SaveBudgetSetDoc(d)
        \/ UpdateMemberInfoGetDoc(d)
        \/ UpdateMemberInfoSetDoc(d)
        \/ GetBudgets(d)
        \/ LoadCommit(d)

SpecDisconnect == ConnectInit /\ [][DisconnectNext]_vars

----------------------------------------------------------------------------
(* A listener that fails: Firestore calls the error callback of onSnapshot
   and sends that listener nothing more *)

\* The error callback (firestoreService.ts lines 316-319) clears isSubscribed.
\* The unsubscribe function stays registered and the store is not told.
ListenerError(d) ==
    /\ noIgnoredHead
    /\ \E i \in 1..Len(unsubscribeFunctions[d]) :
          /\ unsubscribeFunctions[d][i].live
          /\ unsubscribeFunctions' =
                 [unsubscribeFunctions EXCEPT ![d][i].live = FALSE]
    /\ isSubscribed' = [isSubscribed EXCEPT ![d] = FALSE]
    /\ inbox' = [inbox EXCEPT ![d] = <<>>]
    /\ UNCHANGED <<mergeVars, connectVars, currentBudget, budgetHistory,
                   selectedMonth, isInitializing, isSyncing, syncError,
                   lastSyncTime, isListenerActive, familyId, svcFamilyId,
                   docs, asyncVars, ops, nextId, added, removed, lastTopup>>

ListenerErrorNext ==
    \E d \in ConnectDevices :
        \/ ListenerError(d)
        \/ InitializeFirestore(d)
        \/ \E familyIdArg \in {Null, Some(F1)} : CreateOrJoinFamily(d, familyIdArg)
        \/ InitializeGetDoc(d)
        \/ ConnectMemberGetDoc(d)
        \/ ConnectMemberSetDoc(d)
        \/ AfterInitialize(d)
        \/ CreateFamilySetDoc(d)
        \/ JoinGetDoc(d)
        \/ ConnectResume(d)
        \/ DeliverIgnored(d)
        \/ DeliverHandled(d)
        \/ SaveBudgetGetDoc(d)
        \/ SaveBudgetSetDoc(d)
        \/ UpdateMemberInfoGetDoc(d)
        \/ UpdateMemberInfoSetDoc(d)
        \/ GetBudgets(d)
        \/ LoadCommit(d)

SpecListenerError == ConnectInit /\ [][ListenerErrorNext]_vars

----------------------------------------------------------------------------
(* Joining a family that may not exist *)

\* A family id under which there is no document
FMissing == <<"family", "none", 0>>

JoinNext ==
    \E d \in ConnectDevices :
        \/ InitializeFirestore(d)
        \/ \E familyIdArg \in {Null, Some(F1), Some(FMissing)} :
              CreateOrJoinFamily(d, familyIdArg)
        \/ InitializeGetDoc(d)
        \/ ConnectMemberGetDoc(d)
        \/ ConnectMemberSetDoc(d)
        \/ AfterInitialize(d)
        \/ CreateFamilySetDoc(d)
        \/ JoinGetDoc(d)
        \/ ConnectResume(d)
        \/ DeliverIgnored(d)
        \/ DeliverHandled(d)
        \/ SaveBudgetGetDoc(d)
        \/ SaveBudgetSetDoc(d)
        \/ UpdateMemberInfoGetDoc(d)
        \/ UpdateMemberInfoSetDoc(d)
        \/ GetBudgets(d)
        \/ LoadCommit(d)

SpecJoin == ConnectInit /\ [][JoinNext]_vars

----------------------------------------------------------------------------
(* Joining a family that has no budget yet *)

\* Device B has created family F1 (createOrJoinFamily without an id) and has
\* not created a budget: the document holds the familyData of lines 111-126.
\* Device A has just loaded the page, as in ConnectInit.
NewFamilyInit ==
    /\ MergeIdle
    /\ \E connected \in BOOLEAN, hasBudget \in BOOLEAN :
          /\ budgetHistory = [d \in Devices |->
                 IF d = "A" /\ hasBudget THEN <<X0>> ELSE <<>>]
          /\ currentBudget = [d \in Devices |->
                 IF d = "A" /\ hasBudget THEN Some(X0) ELSE Null]
          /\ familyId = [d \in Devices |->
                 IF d = "B" \/ connected THEN Some(F1) ELSE Null]
          /\ storedFamilyId = [d \in Devices |->
                 IF d = "B" \/ connected THEN Some(F1) ELSE Null]
          /\ docs = (F1 :> [familyData("B", F1) EXCEPT
                                !.members = IF connected THEN <<"B", "A">>
                                            ELSE <<"B">>])
    /\ selectedMonth = [d \in Devices |-> "m1"]
    /\ isInitializing = [d \in Devices |-> FALSE]
    /\ isSyncing = [d \in Devices |-> FALSE]
    /\ syncError = [d \in Devices |-> Null]
    /\ lastSyncTime = [d \in Devices |-> 0]
    /\ isListenerActive = [d \in Devices |-> FALSE]
    /\ svcFamilyId = [d \in Devices |-> IF d = "B" THEN Some(F1) ELSE Null]
    /\ isSubscribed = [d \in Devices |-> FALSE]
    /\ unsubscribeFunctions = [d \in Devices |-> <<>>]
    /\ inbox = [d \in Devices |-> <<>>]
    /\ pushes = [d \in Devices |-> <<>>]
    /\ pulls = [d \in Devices |-> <<>>]
    /\ timers = [d \in Devices |-> 0]
    /\ connects = [d \in Devices |-> <<>>]
    /\ ops = 0
    /\ nextId = [d \in Devices |-> 1]
    /\ added = [d \in Devices |-> {}]
    /\ lastTopup = [d \in Devices |-> Null]
    /\ removed = [d \in Devices |-> {}]

SpecNewFamily == NewFamilyInit /\ [][ConnectNext]_vars

----------------------------------------------------------------------------
(* Two devices of one family, each working on a budget of its own *)

\* The budget device B created for month m2
Y0 == newBudget("B", 0, 1000, "m2", 0)

\* Both devices are connected to family F1 as in Init.  A created X0 and
\* pushed it, B created Y0 and pushed it, and each has merged the other's
\* budget into its history; A has month m1 selected, B month m2.
TwoBudgetsInit ==
    /\ MergeIdle
    /\ budgetHistory = [d \in Devices |->
            IF d = "A" THEN <<X0, budgetFromFirestore(budgetToFirestore(Y0))>>
            ELSE <<Y0, budgetFromFirestore(budgetToFirestore(X0))>>]
    /\ currentBudget = [d \in Devices |->
            IF d = "A" THEN Some(X0) ELSE Some(Y0)]
    /\ selectedMonth = [d \in Devices |-> IF d = "A" THEN "m1" ELSE "m2"]
    /\ isInitializing = [d \in Devices |-> FALSE]
    /\ isSyncing = [d \in Devices |-> FALSE]
    /\ syncError = [d \in Devices |-> Null]
    /\ lastSyncTime = [d \in Devices |-> 1]
    /\ isListenerActive = [d \in Devices |-> TRUE]
    /\ familyId = [d \in Devices |-> Some(F1)]
    /\ svcFamilyId = [d \in Devices |-> Some(F1)]
    /\ isSubscribed = [d \in Devices |-> TRUE]
    /\ unsubscribeFunctions =
          [d \in Devices |-> <<[family |-> F1, callback |-> "initializeFirestore",
                                live |-> TRUE, call |-> 0]>>]
    /\ docs = (F1 :> [id |-> F1,
                      budgets |-> <<budgetToFirestore(X0), budgetToFirestore(Y0)>>,
                      lastUpdatedBy |-> "B", members |-> <<"A", "B">>])
    /\ inbox = [d \in Devices |-> <<>>]
    /\ pushes = [d \in Devices |-> <<>>]
    /\ pulls = [d \in Devices |-> <<>>]
    /\ timers = [d \in Devices |-> 0]
    /\ connects = [d \in Devices |-> <<>>]
    /\ storedFamilyId = [d \in Devices |-> Some(F1)]
    /\ ops = 0
    /\ nextId = [d \in Devices |-> 1]
    /\ added = [d \in Devices |-> {}]
    /\ lastTopup = [d \in Devices |-> Null]
    /\ removed = [d \in Devices |-> {}]

SpecTwoBudgets == TwoBudgetsInit /\ [][EchoNext]_vars

----------------------------------------------------------------------------
(* The store of src/src/store/useExpenseStore.ts.  Its mutators keep
   spentAmount by adding and subtracting amounts; they do not recalculate. *)

\* The most operations on the budget in one behaviour
MaxLedgerOps == 3

\* The amounts the user enters
LedgerAmounts == {50, 100}

\* addManualExpense, the body of set (lines 507-529)
addManualExpenseInc(cb, newExpense) ==
    IF cb = Null THEN Null
    ELSE Some([cb[1] EXCEPT
            !.expenses = Append(@, newExpense),
            !.categories = MapSeq(@, LAMBDA cat :
                IF cat.id = newExpense.categoryId
                THEN [cat EXCEPT !.spentAmount = @ + newExpense.amount]
                ELSE cat)])

\* editExpense, the body of set (lines 545-587): the category the expense was
\* in is looked at first, and a category that matches is not looked at again
editExpenseInc(cb, expenseId, categoryId, amount, description, date) ==
    IF cb = Null THEN Null
    ELSE LET expense == Find(cb[1].expenses, LAMBDA e : e.id = expenseId)
         IN  IF expense = Null THEN Null
             ELSE LET oldAmount == expense[1].amount
                      oldCategoryId == expense[1].categoryId
                  IN  Some([cb[1] EXCEPT
                          !.expenses = MapSeq(@, LAMBDA exp :
                              IF exp.id = expenseId
                              THEN [exp EXCEPT !.categoryId = categoryId,
                                               !.amount = amount,
                                               !.description = description,
                                               !.date = date]
                              ELSE exp),
                          !.categories = MapSeq(@, LAMBDA cat :
                              IF cat.id = oldCategoryId
                              THEN [cat EXCEPT !.spentAmount = @ - oldAmount]
                              ELSE IF cat.id = categoryId
                              THEN [cat EXCEPT !.spentAmount = @ + amount]
                              ELSE cat)])

\* deleteExpense, the body of set (lines 597-628)
deleteExpenseInc(cb, expenseId) ==
    IF cb = Null THEN Null
    ELSE LET expense == Find(cb[1].expenses, LAMBDA e : e.id = expenseId)
         IN  IF expense = Null THEN Null
             ELSE Some([cb[1] EXCEPT
                     !.expenses = SelectSeq(@, LAMBDA exp : exp.id # expenseId),
                     !.categories = MapSeq(@, LAMBDA cat :
                         IF cat.id = expense[1].categoryId
                         THEN [cat EXCEPT !.spentAmount = @ - expense[1].amount]
                         ELSE cat)])

\* markFixedExpenseComplete, the body of set (lines 440-481)
markFixedExpenseCompleteInc(cb, expenseId, manualExpenseId, now) ==
    IF cb = Null THEN Null
    ELSE LET fixedExpense == Find(cb[1].fixedExpenses, LAMBDA fe : fe.id = expenseId)
         IN  IF fixedExpense = Null \/ fixedExpense[1].isCompleted THEN Null
             ELSE Some([cb[1] EXCEPT
                     !.fixedExpenses = MapSeq(@, LAMBDA fe :
                         IF fe.id = expenseId
                         THEN [fe EXCEPT !.isCompleted = TRUE] ELSE fe),
                     !.expenses = Append(@,
                         [id |-> manualExpenseId,
                          categoryId |-> fixedExpense[1].categoryId,
                          amount |-> fixedExpense[1].amount,
                          description |-> fixedExpense[1].name,
                          date |-> Iso(now),
                          type |-> "fixed"]),
                     !.categories = MapSeq(@, LAMBDA cat :
                         IF cat.id = fixedExpense[1].categoryId
                         THEN [cat EXCEPT !.spentAmount =
                                   @ + fixedExpense[1].amount]
                         ELSE cat)])

\* A freshly created budget (createMonthlyBudget, lines 306-365)
LedgerInit ==
    /\ SystemIdle
    /\ mLocal = <<>> /\ mRemote = <<>>
    /\ mMerged = <<>> /\ mAgain = <<>> /\ mSwapped = <<>> /\ mSelf = <<>>
    /\ mDone = TRUE
    /\ rBudget = <<>> /\ rOnce = <<>> /\ rTwice = <<>>
    /\ currentBudgetInc = Some(X0)

\* set((state) => ...): `return state` leaves the budget as it is
ledgerCommit(updated) ==
    /\ ops < MaxLedgerOps
    /\ ops' = ops + 1
    /\ currentBudgetInc' = IF updated = Null THEN currentBudgetInc ELSE updated
    /\ UNCHANGED <<mLocal, mRemote, mMerged, mDone, mAgain, mSwapped, mSelf,
                   rBudget, rOnce, rTwice, storeVars, serviceVars, docs, inbox,
                   asyncVars, connectVars, nextId, historyVars>>

AddManualExpenseInc ==
    \E categoryId \in IdsOf(currentBudgetInc[1].categories),
       amount \in LedgerAmounts :
        ledgerCommit(addManualExpenseInc(currentBudgetInc,
            [id |-> <<"expense", "A", ops + 1>>, categoryId |-> categoryId,
             amount |-> amount, description |-> "added", date |-> Ymd(ops + 1),
             type |-> "manual"]))

EditExpenseInc ==
    \E expenseId \in IdsOf(currentBudgetInc[1].expenses),
       categoryId \in IdsOf(currentBudgetInc[1].categories),
       amount \in LedgerAmounts :
        ledgerCommit(editExpenseInc(currentBudgetInc, expenseId, categoryId,
                                    amount, "edited", Ymd(ops + 1)))

DeleteExpenseInc ==
    \E expenseId \in IdsOf(currentBudgetInc[1].expenses) :
        ledgerCommit(deleteExpenseInc(currentBudgetInc, expenseId))

MarkFixedExpenseCompleteInc ==
    \E expenseId \in IdsOf(currentBudgetInc[1].fixedExpenses) :
        ledgerCommit(markFixedExpenseCompleteInc(currentBudgetInc, expenseId,
                         <<"expense", "A", ops + 1>>, ops + 1))

LedgerNext ==
    \/ AddManualExpenseInc
    \/ EditExpenseInc
    \/ DeleteExpenseInc
    \/ MarkFixedExpenseCompleteInc

SpecLedger == LedgerInit /\ [][LedgerNext]_vars

----------------------------------------------------------------------------
(* One device pushing a history of three budgets over a failing network *)

\* The most calls of syncToFirestore in one behaviour
MaxSyncs == 2

SyncDevices == {"A"}

\* The budgets of three months as device A created and pushed them
CreatedHistory ==
    << X0, newBudget("A", 1, 1200, "m2", 1), newBudget("A", 2, 1400, "m3", 2) >>

\* The budget after updateCategoryAllocation of its grocery category
afterAllocation(budget) ==
    LET grocery == CHOOSE i \in 1..Len(budget.categories) :
                       budget.categories[i].type = "grocery"
    IN  updateCategoryAllocationBody(Some(budget), budget.categories[grocery].id,
                                     300)[1]

\* The budgets as device A holds them: each has had its allocation changed
\* since it was pushed
SyncHistory == [i \in 1..Len(CreatedHistory) |-> afterAllocation(CreatedHistory[i])]

\* error.message of a rejected Firestore call
Unavailable == "Failed to get document because the client is offline."

\* Device A is connected to family F1 and listens; it holds the budgets of
\* two or three months, the family document holds the first `synced` of them
\* as they were created, the other member's app is closed
SyncInit ==
    /\ MergeIdle
    /\ \E n \in 2..3 :
          /\ budgetHistory = [d \in Devices |->
                 IF d = "A" THEN SubSeq(SyncHistory, 1, n) ELSE <<>>]
          /\ \E synced \in 0..n :
                docs = (F1 :> [id |-> F1,
                               budgets |-> [i \in 1..synced |->
                                               budgetToFirestore(CreatedHistory[i])],
                               lastUpdatedBy |-> "A", members |-> <<"A", "B">>])
    /\ currentBudget = [d \in Devices |->
           IF d = "A" THEN Some(SyncHistory[1]) ELSE Null]
    /\ selectedMonth = [d \in Devices |-> "m1"]
    /\ isInitializing = [d \in Devices |-> FALSE]
    /\ isSyncing = [d \in Devices |-> FALSE]
    /\ syncError = [d \in Devices |-> Null]
    /\ lastSyncTime = [d \in Devices |-> 1]
    /\ isListenerActive = [d \in Devices |-> d = "A"]
    /\ familyId = [d \in Devices |-> Some(F1)]
    /\ svcFamilyId = [d \in Devices |-> IF d = "A" THEN Some(F1) ELSE Null]
    /\ isSubscribed = [d \in Devices |-> d = "A"]
    /\ unsubscribeFunctions = [d \in Devices |->
           IF d = "A"
           THEN <<[family |-> F1, callback |-> "initializeFirestore",
                   live |-> TRUE, call |-> 0]>>
           ELSE <<>>]
    /\ inbox = [d \in Devices |-> <<>>]
    /\ pushes = [d \in Devices |-> <<>>]
    /\ pulls = [d \in Devices |-> <<>>]
    /\ timers = [d \in Devices |-> 0]
    /\ connects = [d \in Devices |-> <<>>]
    /\ storedFamilyId = [d \in Devices |-> Some(F1)]
    /\ ops = 0
    /\ nextId = [d \in Devices |-> 3]
    /\ added = [d \in Devices |-> {}]
    /\ lastTopup = [d \in Devices |-> Null]
    /\ removed = [d \in Devices |-> {}]

\* The user presses the sync button of FamilySetup, which is disabled while
\* isSyncing
SyncToFirestore(d) ==
    /\ noIgnoredHead
    /\ ops < MaxSyncs
    /\ ~isSyncing[d]
    /\ syncToFirestoreCall(d, budgetHistory[d])
    /\ ops' = ops + 1
    /\ UNCHANGED <<mergeVars, connectVars, currentBudget, budgetHistory,
                   selectedMonth, isInitializing, lastSyncTime,
                   isListenerActive, familyId, serviceVars, docs, inbox, pulls,
                   timers, nextId, added, removed, lastTopup>>

\* A handler that records the error and goes on with the next budget
syncFailedGoesOn(d, k, message) ==
    LET frame == pushes[d][k]
        more == frame.i < Len(frame.budgets)
    IN  /\ pushes' = [pushes EXCEPT ![d] =
               IF more
               THEN [@ EXCEPT ![k] = [frame EXCEPT !.i = @ + 1, !.pc = "getDoc",
                                                   !.data = Null]]
               ELSE RemoveAt(@, k)]
        /\ syncError' = [syncError EXCEPT ![d] = Some(message)]
        /\ isSyncing' = [isSyncing EXCEPT ![d] = more]
        /\ UNCHANGED lastSyncTime

\* syncToFirestore lines 385-391: saveBudget has thrown, the loop is left
syncFailed(d, k, message) ==
    /\ pushes' = [pushes EXCEPT ![d] = RemoveAt(@, k)]
    /\ syncError' = [syncError EXCEPT ![d] = Some(message)]
    /\ isSyncing' = [isSyncing EXCEPT ![d] = FALSE]
    /\ UNCHANGED lastSyncTime

\* saveBudget: the awaited getDoc or setDoc rejects and writes nothing; the
\* catch of lines 265-268 rethrows
SaveBudgetFails(d) ==
    \E k \in 1..Len(pushes[d]) :
        /\ noIgnoredHead
        /\ pushes[d][k].pc \in {"getDoc", "setDoc"}
        /\ syncFailed(d, k, Unavailable)
        /\ UNCHANGED <<mergeVars, connectVars, currentBudget, budgetHistory,
                       selectedMonth, isInitializing, isListenerActive,
                       familyId, serviceVars, docs, inbox, pulls, timers, ops,
                       nextId, added, removed, lastTopup>>

\* updateMemberInfo: the awaited getDoc or setDoc rejects; the catch of lines
\* 175-177 logs, and saveBudget returns
UpdateMemberInfoFails(d) ==
    \E k \in 1..Len(pushes[d]) :
        /\ noIgnoredHead
        /\ pushes[d][k].pc \in {"memberGetDoc", "memberSetDoc"}
        /\ saveBudgetReturns(d, k)
        /\ UNCHANGED <<mergeVars, connectVars, currentBudget, budgetHistory,
                       selectedMonth, isInitializing, isListenerActive,
                       familyId, serviceVars, docs, inbox, pulls, timers, ops,
                       nextId, added, removed, lastTopup>>

SyncNext ==
    \E d \in SyncDevices :
        \/ SyncToFirestore(d)
        \/ SaveBudgetGetDoc(d)
        \/ SaveBudgetSetDoc(d)
        \/ UpdateMemberInfoGetDoc(d)
        \/ UpdateMemberInfoSetDoc(d)
        \/ SaveBudgetFails(d)
        \/ UpdateMemberInfoFails(d)
        \/ DeliverIgnored(d)

SpecSync == SyncInit /\ [][SyncNext]_vars

----------------------------------------------------------------------------
(* One device pulling over a failing network *)

PullDevices == {"A"}

\* X0 as device A holds it after adding an expense of its own
X0Spent ==
    addManualExpenseBody(Some(X0),
        [id |-> <<"expense", "A", 1>>, categoryId |-> X0.categories[2].id,
         amount |-> 100, description |-> "added", date |-> Ymd(1),
         type |-> "manual"])[1]

\* X0 as the other member changed and pushed it: an expense of its own
X0Remote ==
    addManualExpenseBody(Some(budgetFromFirestore(budgetToFirestore(X0))),
        [id |-> <<"expense", "B", 1>>, categoryId |-> X0.categories[2].id,
         amount |-> 50, description |-> "added", date |-> Ymd(1),
         type |-> "manual"])[1]

\* The budget the other member created for the next month
M2Remote == newBudget("B", 2, 1500, "m2", 1)

\* Device A is connected to family F1; it holds no budget, X0 or X0 with an
\* expense and has one of two months selected; the family document was last
\* written by the other member, whose app is closed
PullInit ==
    /\ MergeIdle
    /\ \E history \in {<<>>, <<X0>>, <<X0Spent>>}, month \in Months :
          /\ budgetHistory = [d \in Devices |-> IF d = "A" THEN history ELSE <<>>]
          /\ selectedMonth = [d \in Devices |-> IF d = "A" THEN month ELSE "m1"]
          /\ currentBudget = [d \in Devices |->
                 IF d = "A" THEN Find(history, LAMBDA b : b.month = month)
                 ELSE Null]
    /\ \E remote \in {<<>>, <<X0>>, <<X0Remote>>, <<X0Remote, M2Remote>>} :
          docs = (F1 :> [id |-> F1,
                         budgets |-> MapSeq(remote, budgetToFirestore),
                         lastUpdatedBy |-> "B", members |-> <<"A", "B">>])
    /\ isInitializing = [d \in Devices |-> FALSE]
    /\ isSyncing = [d \in Devices |-> FALSE]
    /\ syncError = [d \in Devices |-> Null]
    /\ lastSyncTime = [d \in Devices |-> 1]
    /\ isListenerActive = [d \in Devices |-> d = "A"]
    /\ familyId = [d \in Devices |-> Some(F1)]
    /\ svcFamilyId = [d \in Devices |-> IF d = "A" THEN Some(F1) ELSE Null]
    /\ isSubscribed = [d \in Devices |-> d = "A"]
    /\ unsubscribeFunctions = [d \in Devices |->
           IF d = "A"
           THEN <<[family |-> F1, callback |-> "initializeFirestore",
                   live |-> TRUE, call |-> 0]>>
           ELSE <<>>]
    /\ inbox = [d \in Devices |-> <<>>]
    /\ pushes = [d \in Devices |-> <<>>]
    /\ pulls = [d \in Devices |-> <<>>]
    /\ timers = [d \in Devices |-> 0]
    /\ connects = [d \in Devices |-> <<>>]
    /\ storedFamilyId = [d \in Devices |-> Some(F1)]
    /\ ops = 0
    /\ nextId = [d \in Devices |-> 3]
    /\ added = [d \in Devices |-> {}]
    /\ lastTopup = [d \in Devices |-> Null]
    /\ removed = [d \in Devices |-> {}]

PullNext ==
    \E d \in PullDevices :
        \/ LoadFromFirestore(d)
        \/ GetBudgets(d)
        \/ GetBudgetsFails(d)
        \/ LoadCommit(d)
        \/ SetSelectedMonth(d)

SpecPull == PullInit /\ [][PullNext]_vars

----------------------------------------------------------------------------
(* One device changing its budget, connected or not, over a failing network *)

MutateDevices == {"A"}

\* X0 after the grocery allocation was set to 300 and 150 of it were spent
X0Grocery ==
    addManualExpenseBody(Some(afterAllocation(X0)),
        [id |-> <<"expense", "A", 1>>, categoryId |-> X0.categories[2].id,
         amount |-> 150, description |-> "added", date |-> Ymd(1),
         type |-> "manual"])[1]

MutateInit ==
    /\ MergeIdle
    /\ \E history \in {<<>>, <<X0>>, <<X0Grocery>>}, connected \in BOOLEAN :
          /\ budgetHistory = [d \in Devices |-> IF d = "A" THEN history ELSE <<>>]
          /\ currentBudget = [d \in Devices |->
                 IF d = "A" THEN Find(history, LAMBDA b : b.month = "m1")
                 ELSE Null]
          /\ docs = (F1 :> [id |-> F1,
                            budgets |-> IF connected
                                        THEN MapSeq(history, budgetToFirestore)
                                        ELSE <<>>,
                            lastUpdatedBy |-> "B", members |-> <<"B">>])
          /\ familyId = [d \in Devices |->
                 IF d = "A" /\ connected THEN Some(F1) ELSE Null]
          /\ svcFamilyId = [d \in Devices |->
                 IF d = "A" /\ connected THEN Some(F1) ELSE Null]
          /\ isListenerActive = [d \in Devices |-> d = "A" /\ connected]
          /\ isSubscribed = [d \in Devices |-> d = "A" /\ connected]
          /\ unsubscribeFunctions = [d \in Devices |->
                 IF d = "A" /\ connected
                 THEN <<[family |-> F1, callback |-> "initializeFirestore",
                         live |-> TRUE, call |-> 0]>>
                 ELSE <<>>]
          /\ storedFamilyId = [d \in Devices |->
                 IF d = "A" /\ connected THEN Some(F1) ELSE Null]
          /\ lastSyncTime = [d \in Devices |->
                 IF d = "A" /\ connected THEN 1 ELSE 0]
    /\ selectedMonth = [d \in Devices |-> "m1"]
    /\ isInitializing = [d \in Devices |-> FALSE]
    /\ isSyncing = [d \in Devices |-> FALSE]
    /\ syncError = [d \in Devices |-> Null]
    /\ inbox = [d \in Devices |-> <<>>]
    /\ pushes = [d \in Devices |-> <<>>]
    /\ pulls = [d \in Devices |-> <<>>]
    /\ timers = [d \in Devices |-> 0]
    /\ connects = [d \in Devices |-> <<>>]
    /\ ops = 0
    /\ nextId = [d \in Devices |-> 3]
    /\ added = [d \in Devices |-> {}]
    /\ removed = [d \in Devices |-> {}]
    /\ lastTopup = [d \in Devices |-> Null]

MutateNext ==
    \E d \in MutateDevices :
        \/ CreateMonthlyBudget(d)
        \/ UpdateCategoryAllocation(d)
        \/ AddFixedExpense(d)
        \/ MarkFixedExpenseComplete(d)
        \/ AddManualExpense(d)
        \/ EditExpense(d)
        \/ DeleteExpense(d)
        \/ TopupCategory(d)
        \/ TimerFires(d)
        \/ SaveBudgetGetDoc(d)
        \/ SaveBudgetSetDoc(d)
        \/ UpdateMemberInfoGetDoc(d)
        \/ UpdateMemberInfoSetDoc(d)
        \/ SaveBudgetFails(d)
        \/ UpdateMemberInfoFails(d)
        \/ DeliverIgnored(d)

SpecMutate == MutateInit /\ [][MutateNext]_vars

----------------------------------------------------------------------------
(* One device pulling and pushing over a failing network, every remote call
   of which returns or throws *)

StatusDevices == {"A"}

StatusNext ==
    \E d \in StatusDevices :
        \/ LoadFromFirestore(d)
        \/ GetBudgets(d)
        \/ GetBudgetsFails(d)
        \/ LoadCommit(d)
        \/ SyncToFirestore(d)
        \/ SaveBudgetGetDoc(d)
        \/ SaveBudgetSetDoc(d)
        \/ UpdateMemberInfoGetDoc(d)
        \/ UpdateMemberInfoSetDoc(d)
        \/ SaveBudgetFails(d)
        \/ UpdateMemberInfoFails(d)
        \/ DeliverIgnored(d)

\* An awaited remote call returns or throws, a discarded snapshot is taken
\* from the queue
StatusReturns ==
    \E d \in StatusDevices :
        \/ GetBudgets(d)
        \/ GetBudgetsFails(d)
        \/ SaveBudgetGetDoc(d)
        \/ SaveBudgetSetDoc(d)
        \/ UpdateMemberInfoGetDoc(d)
        \/ UpdateMemberInfoSetDoc(d)
        \/ SaveBudgetFails(d)
        \/ UpdateMemberInfoFails(d)
        \/ DeliverIgnored(d)

\* The step of LoadCommit as the list of pulls sees it: a pull whose
\* getBudgets has returned goes on to its end.  It is possible exactly when
\* LoadCommit is.
StatusCommits ==
    \E d \in StatusDevices :
        \E k \in 1..Len(pulls[d]) :
            /\ noIgnoredHead
            /\ pulls[d][k].pc = "commit"
            /\ pulls' = [pulls EXCEPT ![d] = RemoveAt(@, k)]

SpecStatus ==
    PullInit /\ [][StatusNext]_vars
        /\ WF_vars(StatusReturns) /\ WF_pulls(StatusCommits)

----------------------------------------------------------------------------
(* Properties of the merge (SpecMerge) *)

expenseIds(budget) == {budget.expenses[i].id : i \in 1..Len(budget.expenses)}

occurrences(budget, id) ==
    Cardinality({i \in 1..Len(budget.expenses) : budget.expenses[i].id = id})

\* The sum of the amounts of the budget's expenses of one category
spentOf(budget, categoryId) ==
    SumAmountsFrom(SelectSeq(budget.expenses,
                             LAMBDA e : e.categoryId = categoryId), 1)

spentDerived(budget) ==
    \A i \in 1..Len(budget.categories) :
        budget.categories[i].spentAmount =
            spentOf(budget, budget.categories[i].id)

\* The metadata of a budget: income, categories (id, name, allocation) and
\* fixed-expense templates
metadata(budget) ==
    [totalSalary |-> budget.totalSalary,
     categories |-> MapSeq(budget.categories, LAMBDA cat :
                       [id |-> cat.id, name |-> cat.name,
                        allocatedAmount |-> cat.allocatedAmount]),
     fixedExpenses |-> budget.fixedExpenses]

\* The budgets of the merge result with the given id
mergedWithId(id) == {i \in 1..Len(mMerged) : mMerged[i].id = id}

\* C2: for a local and a remote budget with the same id, the merged budget's
\* expenses hold every expense id of either input exactly once and no other id.
C2_MergeKeepsEveryIdOnce ==
    mDone =>
        \A l \in Range(mLocal), r \in Range(mRemote) :
            l.id = r.id =>
                /\ Cardinality(mergedWithId(l.id)) = 1
                /\ \A i \in mergedWithId(l.id) :
                      /\ expenseIds(mMerged[i]) = expenseIds(l) \cup expenseIds(r)
                      /\ \A id \in expenseIds(mMerged[i]) :
                            occurrences(mMerged[i], id) = 1

\* A merge of {e1, e2} with {e2, e3}: one shared id, one id on each side only
C2_Witness ==
    /\ mDone
    /\ Len(mLocal) = 1 /\ Len(mRemote) = 1 /\ Len(mMerged) = 1
    /\ expenseIds(mLocal[1]) = {"e1", "e2"}
    /\ expenseIds(mRemote[1]) = {"e2", "e3"}
    /\ Len(mMerged[1].expenses) = 3

\* C10: for a budget id in both inputs the merged budget has the remote copy's
\* metadata exactly when remote.createdAt is strictly later than
\* local.createdAt and the local copy's otherwise; its expenses are the union
\* of both lists and its spent amounts are the sums over that union.
C10_MetadataFromStrictlyNewer ==
    mDone =>
        \A l \in Range(mLocal), r \in Range(mRemote) :
            l.id = r.id =>
                \A i \in mergedWithId(l.id) :
                    /\ metadata(mMerged[i]) =
                          IF DateOf(r.createdAt) > DateOf(l.createdAt)
                          THEN metadata(r) ELSE metadata(l)
                    /\ expenseIds(mMerged[i]) = expenseIds(l) \cup expenseIds(r)
                    /\ Len(mMerged[i].expenses) =
                          Cardinality(expenseIds(l) \cup expenseIds(r))
                    /\ spentDerived(mMerged[i])

\* Equal creation instants, different metadata, an expense on the remote side
\* only: the result has the local metadata and a non-zero recomputed amount
C10_Witness ==
    /\ mDone
    /\ Len(mLocal) = 1 /\ Len(mRemote) = 1 /\ Len(mMerged) = 1
    /\ DateOf(mRemote[1].createdAt) = DateOf(mLocal[1].createdAt)
    /\ metadata(mRemote[1]) # metadata(mLocal[1])
    /\ metadata(mMerged[1]) = metadata(mLocal[1])
    /\ expenseIds(mRemote[1]) \ expenseIds(mLocal[1]) # {}
    /\ \E i \in 1..Len(mMerged[1].categories) :
          mMerged[1].categories[i].spentAmount > 0

\* The expenses of a budget with the given id
expensesWithId(budget, id) ==
    {i \in 1..Len(budget.expenses) : budget.expenses[i].id = id}

\* C11: when the local and the remote copy of a budget hold an expense with
\* the same id, the merged budget holds exactly one expense with that id and
\* it equals the local expense field for field.
C11_CollidingExpenseIsLocal ==
    mDone =>
        \A l \in Range(mLocal), r \in Range(mRemote) :
            l.id = r.id =>
                \A i \in mergedWithId(l.id) :
                    \A id \in expenseIds(l) \cap expenseIds(r) :
                        /\ Cardinality(expensesWithId(mMerged[i], id)) = 1
                        /\ \A j \in expensesWithId(mMerged[i], id) :
                              \A k \in expensesWithId(l, id) :
                                  mMerged[i].expenses[j] = l.expenses[k]

\* Both copies hold e1, with different category, amount and description
C11_Witness ==
    /\ mDone
    /\ Len(mLocal) = 1 /\ Len(mRemote) = 1 /\ Len(mMerged) = 1
    /\ \E j \in expensesWithId(mLocal[1], "e1"),
          k \in expensesWithId(mRemote[1], "e1") :
          /\ mLocal[1].expenses[j].categoryId # mRemote[1].expenses[k].categoryId
          /\ mLocal[1].expenses[j].amount # mRemote[1].expenses[k].amount
          /\ mLocal[1].expenses[j].description # mRemote[1].expenses[k].description
    /\ expensesWithId(mMerged[1], "e1") # {}

entry(expense) ==
    [id |-> expense.id, categoryId |-> expense.categoryId,
     amount |-> expense.amount, description |-> expense.description]

entries(budget) == {entry(budget.expenses[i]) : i \in 1..Len(budget.expenses)}

\* The entry of the expense with the given id in a budget that holds it once
entryWithId(budget, id) ==
    entry(budget.expenses[CHOOSE i \in expensesWithId(budget, id) : TRUE])

\* The metadata and the entries merge(<<first>>, <<second>>) must have
swapLaw(result, first, second) ==
    /\ Len(result) = 1
    /\ metadata(result[1]) =
          IF DateOf(second.createdAt) > DateOf(first.createdAt)
          THEN metadata(second) ELSE metadata(first)
    /\ expenseIds(result[1]) = expenseIds(first) \cup expenseIds(second)
    /\ \A id \in expenseIds(result[1]) :
          /\ occurrences(result[1], id) = 1
          /\ entryWithId(result[1], id) =
                IF id \in expenseIds(first)
                THEN entryWithId(first, id) ELSE entryWithId(second, id)
    /\ spentDerived(result[1])

\* C16 as stated: for same-id budgets A and B the merges in both orders hold
\* the same transaction ids, and swapping the inputs changes nothing but which
\* side's metadata is the base, which the createdAt comparison decides.
C16_SwapChangesOnlyMetadataBase ==
    mDone =>
        \A l \in Range(mLocal), r \in Range(mRemote) :
            l.id = r.id =>
                /\ Len(mMerged) = 1 /\ Len(mSwapped) = 1
                /\ expenseIds(mMerged[1]) = expenseIds(mSwapped[1])
                /\ metadata(mMerged[1]) =
                      IF DateOf(r.createdAt) > DateOf(l.createdAt)
                      THEN metadata(r) ELSE metadata(l)
                /\ metadata(mSwapped[1]) =
                      IF DateOf(l.createdAt) > DateOf(r.createdAt)
                      THEN metadata(l) ELSE metadata(r)
                /\ entries(mMerged[1]) = entries(mSwapped[1])

\* C16 amended: the merges in both orders hold the same transaction ids; the
\* metadata base of each is decided by the createdAt comparison alone (the
\* second argument's when strictly later, else the first's); an expense whose
\* id is on both sides is kept in the first argument's copy, so swapping
\* changes the metadata base and the copy kept of each colliding expense.
C16_SwapKeepsIdsAndFirstArgumentWins ==
    mDone =>
        \A l \in Range(mLocal), r \in Range(mRemote) :
            l.id = r.id =>
                /\ swapLaw(mMerged, l, r)
                /\ swapLaw(mSwapped, r, l)
                /\ expenseIds(mMerged[1]) = expenseIds(mSwapped[1])

\* Both sides hold e1 with different entries, the remote side is newer: the
\* two orders agree on the ids and disagree on e1 and on the metadata
C16_Witness ==
    /\ mDone
    /\ Len(mLocal) = 1 /\ Len(mRemote) = 1
    /\ Len(mMerged) = 1 /\ Len(mSwapped) = 1
    /\ "e1" \in expenseIds(mLocal[1]) \cap expenseIds(mRemote[1])
    /\ entryWithId(mLocal[1], "e1") # entryWithId(mRemote[1], "e1")
    /\ expenseIds(mLocal[1]) # expenseIds(mRemote[1])
    /\ metadata(mLocal[1]) # metadata(mRemote[1])
    /\ DateOf(mRemote[1].createdAt) = DateOf(mLocal[1].createdAt)
    /\ metadata(mMerged[1]) # metadata(mSwapped[1])
    /\ entries(mMerged[1]) # entries(mSwapped[1])

----------------------------------------------------------------------------
(* Properties of the merge over budget lists (SpecMergeLists) *)

budgetIds(budgets) == {budgets[i].id : i \in 1..Len(budgets)}

withId(budgets, id) == {i \in 1..Len(budgets) : budgets[i].id = id}

\* C12: for budget lists without a repeated id, the merge returns exactly one
\* budget per id of either list; a budget present only locally equals the
\* local copy and a budget present only remotely equals the remote copy.
C12_OneBudgetPerId ==
    mDone =>
        /\ budgetIds(mMerged) = budgetIds(mLocal) \cup budgetIds(mRemote)
        /\ \A id \in budgetIds(mMerged) : Cardinality(withId(mMerged, id)) = 1
        /\ \A i \in 1..Len(mLocal) :
              mLocal[i].id \notin budgetIds(mRemote) =>
                  \A j \in withId(mMerged, mLocal[i].id) : mMerged[j] = mLocal[i]
        /\ \A i \in 1..Len(mRemote) :
              mRemote[i].id \notin budgetIds(mLocal) =>
                  \A j \in withId(mMerged, mRemote[i].id) : mMerged[j] = mRemote[i]

\* One budget on each side only and one on both sides
C12_Witness ==
    /\ mDone
    /\ budgetIds(mLocal) \ budgetIds(mRemote) # {}
    /\ budgetIds(mRemote) \ budgetIds(mLocal) # {}
    /\ budgetIds(mLocal) \cap budgetIds(mRemote) # {}
    /\ Len(mMerged) = 3

\* C14: merging the local list with the result of merging it with the remote
\* list gives that result again.
C14_MergeIdempotent ==
    mDone => mAgain = mMerged

\* The first merge changed something on both sides: the result is neither
\* input, and a shared budget took the remote metadata and a remote expense
C14_Witness ==
    /\ mDone
    /\ mMerged # mLocal /\ mMerged # mRemote
    /\ mAgain # <<>>
    /\ \E i \in 1..Len(mLocal) :
          \E j \in withId(mRemote, mLocal[i].id) :
              /\ isRemoteNewer(mLocal[i], mRemote[j])
              /\ expenseIds(mRemote[j]) \ expenseIds(mLocal[i]) # {}
              /\ expenseIds(mLocal[i]) \ expenseIds(mRemote[j]) # {}

\* The expenses of a budget as a set of records
transactions(budget) == Range(budget.expenses)

\* The spent amount of each category of a budget, in category order
spentTotals(budget) ==
    MapSeq(budget.categories, LAMBDA cat : [id |-> cat.id, spent |-> cat.spentAmount])

\* C15: merging a list with itself gives, budget for budget, the same
\* transaction set and the same spent amount per category.
C15_SelfMergeKeepsLedger ==
    mDone =>
        /\ Len(mSelf) = Len(mLocal)
        /\ \A i \in 1..Len(mLocal) :
              /\ mSelf[i].id = mLocal[i].id
              /\ transactions(mSelf[i]) = transactions(mLocal[i])
              /\ Len(mSelf[i].expenses) = Len(mLocal[i].expenses)
              /\ spentTotals(mSelf[i]) = spentTotals(mLocal[i])

\* A list of two budgets, one with expenses in two categories
C15_Witness ==
    /\ mDone
    /\ Len(mLocal) = 2 /\ Len(mSelf) = 2
    /\ \E i \in 1..2 :
          /\ Len(mLocal[i].expenses) = 2
          /\ \A k \in 1..Len(mLocal[i].categories) :
                mLocal[i].categories[k].spentAmount > 0

----------------------------------------------------------------------------
(* Properties of the aggregation (SpecRecalc) *)

\* C17: recalculating a recalculated budget gives the same budget again.
C17_RecalculateIdempotent ==
    rTwice # Null => rTwice = rOnce

\* The first recalculation changed the stored amounts and the second ran
C17_Witness ==
    /\ rTwice # Null
    /\ rOnce[1] # rBudget
    /\ \E i \in 1..Len(rOnce[1].categories) :
          rOnce[1].categories[i].spentAmount > 0

\* The category ids of a budget
categoryIds(budget) == {budget.categories[i].id : i \in 1..Len(budget.categories)}

\* The budget without the expenses that name a category it does not have
withoutUnknown(budget) ==
    [budget EXCEPT !.expenses =
        SelectSeq(budget.expenses, LAMBDA e : e.categoryId \in categoryIds(budget))]

\* C18: the recalculated budget has the categories of the given one, same in
\* number, order, id, name and allocated amount, each with the sum of the
\* amounts of the expenses of that category as its spent amount (0 without
\* one); id, month, salary, fixed expenses, expenses and creation time are
\* the given ones; expenses of a category the budget lacks change nothing.
C18_RecalculateSetsSpentOnly ==
    rOnce # Null =>
        LET b == rBudget
            c == rOnce[1]
        IN  /\ Len(c.categories) = Len(b.categories)
            /\ \A i \in 1..Len(b.categories) :
                  /\ c.categories[i].id = b.categories[i].id
                  /\ c.categories[i].name = b.categories[i].name
                  /\ c.categories[i].allocatedAmount = b.categories[i].allocatedAmount
                  /\ c.categories[i].spentAmount = spentOf(b, b.categories[i].id)
            /\ c.id = b.id /\ c.month = b.month
            /\ c.totalSalary = b.totalSalary
            /\ c.fixedExpenses = b.fixedExpenses
            /\ c.expenses = b.expenses
            /\ c.createdAt = b.createdAt
            /\ DOMAIN c = DOMAIN b
            /\ c.categories = recalculateCategorySpending(withoutUnknown(b)).categories

\* A budget with one category, a stored amount of 40, one expense of that
\* category and one of a category the budget lacks
C18_Witness ==
    /\ rOnce # Null
    /\ Len(rBudget.categories) = 1
    /\ rBudget.categories[1].spentAmount = 40
    /\ Len(rBudget.expenses) = 2
    /\ Len(withoutUnknown(rBudget).expenses) = 1
    /\ rOnce[1].categories[1].spentAmount \notin {0, 40}

----------------------------------------------------------------------------
(* Properties of two connected devices (Spec) *)

\* The expense ids of the budgets with the given id in a list of budgets
ledger(budgets, budgetId) ==
    UNION {expenseIds(budgets[i]) :
              i \in {j \in 1..Len(budgets) : budgets[j].id = budgetId}}

\* The expenses of a budget that were created on device d
expensesBy(budget, d) ==
    {i \in 1..Len(budget.expenses) : budget.expenses[i].id[2] = d}

\* Device d's onSnapshot handler takes the oldest snapshot in this step
delivery(d) ==
    /\ inbox[d] # <<>>
    /\ inbox'[d] = Tail(inbox[d])

\* A saveBudget of device d performs its setDoc in this step: the frame and
\* the budget it writes
saveBudgetWrites(d, k) ==
    /\ k \in 1..Len(pushes[d])
    /\ pushes[d][k].pc = "setDoc"
    /\ Len(pushes'[d]) = Len(pushes[d])
    /\ pushes'[d][k].pc = "memberGetDoc"

\* Device d writes the family document in this step (saveBudget or
\* updateMemberInfo of one of its pushes)
writes(d) ==
    /\ pushes'[d] # pushes[d]
    /\ inbox' # inbox

\* Nothing is pending: no snapshot undelivered, no push or pull suspended, no
\* timer armed
Quiescent ==
    \A d \in Devices :
        /\ inbox[d] = <<>>
        /\ pushes[d] = <<>>
        /\ pulls[d] = <<>>
        /\ timers[d] = 0

\* C1: every category of every budget in budgetHistory and of currentBudget has
\* spentAmount equal to the sum of the amounts of that budget's expenses of
\* that category, after any sequence of mutators, pulls and deliveries.
C1_SpentAmountIsDerived ==
    \A d \in Devices :
        /\ \A i \in 1..Len(budgetHistory[d]) : spentDerived(budgetHistory[d][i])
        /\ currentBudget[d] # Null => spentDerived(currentBudget[d][1])

\* A device holds a budget with expenses created on both devices, merged in by
\* a delivery or a pull, and a category whose amount is the sum of two of them
C1_Witness ==
    \E d \in Devices :
        /\ currentBudget[d] # Null
        /\ \E i \in 1..Len(budgetHistory[d]) :
              LET budget == budgetHistory[d][i]
              IN  /\ budget = currentBudget[d][1]
                  /\ expensesBy(budget, "A") # {}
                  /\ expensesBy(budget, "B") # {}
                  /\ \E c \in 1..Len(budget.categories) :
                        budget.categories[c].spentAmount = 200

\* C3: an expense added on a device and deleted on none is in that device's
\* budgetHistory in every later state, whatever pull or delivery commits in
\* between.
C3_AddedExpenseNeverLost ==
    \A d \in Devices :
        \A a \in added[d] :
            a.id \notin UNION {removed[e] : e \in Devices} =>
                a.id \in ledger(budgetHistory[d], a.budget)

\* C4: a delivery whose lastUpdatedBy is the device's own member id changes
\* none of budgetHistory, currentBudget and lastSyncTime of that device.
C4_SelfEchoChangesNothing ==
    [][\A d \in Devices :
          (delivery(d) /\ Head(inbox[d]).lastUpdatedBy = getMemberId(d)) =>
              /\ budgetHistory'[d] = budgetHistory[d]
              /\ currentBudget'[d] = currentBudget[d]
              /\ lastSyncTime'[d] = lastSyncTime[d]]_vars

\* A listens through initializeFirestore's callback and B through
\* createOrJoinFamily's; each has pushed an expense of its own, so each was
\* sent a snapshot of its own write, and every snapshot has been handled
C4_Witness ==
    /\ unsubscribeFunctions["A"][1].callback = "initializeFirestore"
    /\ unsubscribeFunctions["B"][1].callback = "createOrJoinFamily"
    /\ Quiescent
    /\ \E i \in 1..Len(docs[F1].budgets) :
          /\ expensesBy(docs[F1].budgets[i], "A") # {}
          /\ expensesBy(docs[F1].budgets[i], "B") # {}

\* C5: a delivery whose lastUpdatedBy is another member's id commits
\* budgetHistory = mergeRemoteWithLocal(budgetHistory, delivered budgets).
C5_DeliveryCommitsMerge ==
    [][\A d \in Devices :
          (delivery(d) /\ Head(inbox[d]).lastUpdatedBy # getMemberId(d)) =>
              budgetHistory'[d] =
                  mergeRemoteWithLocal(budgetHistory[d],
                      MapSeq(Head(inbox[d]).budgets, budgetFromFirestore))]_vars

\* C6: every write of a device to the family document leaves the device's own
\* member id in lastUpdatedBy.
C6_WriteCarriesOwnId ==
    [][\A d \in Devices :
          writes(d) => docs'[F1].lastUpdatedBy = getMemberId(d)]_vars

\* C7: when a saveBudget overwrites budget X of the family document, every
\* expense id of the document's X just before the write is in the written copy
\* or was deleted on the writing device.
C7_PushWritesMergedView ==
    [][\A d \in Devices :
          \A k \in 1..Len(pushes[d]) :
              saveBudgetWrites(d, k) =>
                  LET budget == pushes[d][k].budgets[pushes[d][k].i]
                  IN  ledger(docs[F1].budgets, budget.id) \subseteq
                          expenseIds(budget) \cup removed[d]]_vars

\* C8: once both devices have added expenses, nothing was deleted and nothing
\* is pending, both hold the same expense ids for the shared budget, every
\* added one among them.
C8_DevicesConverge ==
    (/\ Quiescent
     /\ \A d \in Devices : added[d] # {} /\ removed[d] = {}) =>
        /\ ledger(budgetHistory["A"], X0.id) = ledger(budgetHistory["B"], X0.id)
        /\ \A d \in Devices :
              \A a \in added[d] :
                  \A e \in Devices : a.id \in ledger(budgetHistory[e], a.budget)

----------------------------------------------------------------------------
(* Properties of a push over a failing network (SpecSync) *)

\* The family document holds the budget as the device holds it
written(family, budget) ==
    \E i \in 1..Len(docs[family].budgets) :
        docs[family].budgets[i] = budgetToFirestore(budget)

writtenNext(family, budget) ==
    \E i \in 1..Len(docs'[family].budgets) :
        docs'[family].budgets[i] = budgetToFirestore(budget)

\* The syncToFirestore call in frame k of device d fails in this step
syncFails(d, k) ==
    /\ k \in 1..Len(pushes[d])
    /\ pushes[d][k].pc \in {"getDoc", "setDoc"}
    /\ syncError[d] = Null
    /\ syncError'[d] # Null

\* C20: syncToFirestore writes the budgets of budgetHistory one at a time in
\* list order; when the write of the k-th budget fails, the budgets before it
\* stay written in the family document, the budgets after it are not
\* attempted, syncError is the failure message and isSyncing is false.
C20_FailedSyncKeepsPrefix ==
    [][\A d \in SyncDevices :
          \A k \in 1..Len(pushes[d]) :
              LET frame == pushes[d][k]
              IN  /\ saveBudgetWrites(d, k) =>
                        /\ frame.budgets = budgetHistory[d]
                        /\ isSyncing[d]
                        /\ pushes'[d][k].i = frame.i
                        /\ writtenNext(frame.family, frame.budgets[frame.i])
                        /\ \A j \in 1..(frame.i - 1) :
                              writtenNext(frame.family, frame.budgets[j])
                        /\ ops = 1 =>
                              \A j \in (frame.i + 1)..Len(frame.budgets) :
                                  ~writtenNext(frame.family, frame.budgets[j])
                  /\ (Len(pushes'[d]) = Len(pushes[d]) /\ pushes'[d][k].i # frame.i) =>
                        /\ pushes'[d][k].i = frame.i + 1
                        /\ written(frame.family, frame.budgets[frame.i])
                  /\ syncFails(d, k) =>
                        /\ pushes'[d] = RemoveAt(pushes[d], k)
                        /\ syncError'[d] = Some(Unavailable)
                        /\ ~isSyncing'[d]
                        /\ docs' = docs
                        /\ \A j \in 1..(frame.i - 1) :
                              writtenNext(frame.family, frame.budgets[j])
                        /\ ops = 1 =>
                              \A j \in frame.i..Len(frame.budgets) :
                                  ~writtenNext(frame.family, frame.budgets[j])
      ]_vars

\* The first push of three budgets has failed at the second: the document
\* holds the first budget as the device holds it and neither of the others
C20_Witness ==
    \E d \in SyncDevices :
        /\ ops = 1
        /\ Len(budgetHistory[d]) = 3
        /\ pushes[d] = <<>>
        /\ syncError[d] = Some(Unavailable)
        /\ ~isSyncing[d]
        /\ written(F1, budgetHistory[d][1])
        /\ ~written(F1, budgetHistory[d][2])
        /\ ~written(F1, budgetHistory[d][3])

----------------------------------------------------------------------------
(* Properties of a pull (SpecPull, Spec) *)

\* The loadFromFirestore call in frame k of device d returns in this step
pullEnds(d, k) ==
    /\ k \in 1..Len(pulls[d])
    /\ pulls[d][k].pc = "commit"
    /\ pulls'[d] = RemoveAt(pulls[d], k)

\* C21: a pull whose fetch of the family document failed ends with syncError
\* set and isSyncing false, and leaves budgetHistory and currentBudget as
\* they were.
C21_FailedPullEndsInError ==
    [][\A d \in PullDevices :
          \A k \in 1..Len(pulls[d]) :
              (pullEnds(d, k) /\ pulls[d][k].failed) =>
                  /\ syncError'[d] # Null
                  /\ ~isSyncing'[d]
                  /\ budgetHistory'[d] = budgetHistory[d]
                  /\ currentBudget'[d] = currentBudget[d]
      ]_vars

\* The budgets of the family document of device d, as getBudgets returns them
replica(d) ==
    MapSeq(docs[svcFamilyId[d][1]].budgets, budgetFromFirestore)

\* The getBudgets of frame k of device d returns the document in this step
pullFetches(d, k) ==
    /\ k \in 1..Len(pulls[d])
    /\ pulls[d][k].pc = "getBudgets"
    /\ Len(pulls'[d]) = Len(pulls[d])
    /\ pulls'[d][k].pc = "commit"
    /\ ~pulls'[d][k].failed

\* The store of device d is as the pull in frame captured it
storeAsCaptured(d, frame) ==
    /\ frame.state.budgetHistory = budgetHistory[d]
    /\ frame.state.currentBudget = currentBudget[d]
    /\ frame.state.selectedMonth = selectedMonth[d]

\* C22: a pull fetches the family document's full budget list and, when the
\* store was not changed since the call, commits the merge of budgetHistory
\* with that list, makes the merged budget of the selected month the current
\* budget (keeping the current one when there is none) and ends with
\* isSyncing false and syncError null.
C22_PullCommitsMerge ==
    [][\A d \in Devices :
          \A k \in 1..Len(pulls[d]) :
              /\ pullFetches(d, k) => pulls'[d][k].remoteBudgets = replica(d)
              /\ (pullEnds(d, k) /\ ~pulls[d][k].failed
                     /\ storeAsCaptured(d, pulls[d][k])) =>
                    LET merged == mergeRemoteWithLocal(budgetHistory[d],
                                                       pulls[d][k].remoteBudgets)
                        ofMonth == {i \in 1..Len(merged) :
                                       merged[i].month = selectedMonth[d]}
                    IN  /\ budgetHistory'[d] = merged
                        /\ IF ofMonth = {}
                           THEN currentBudget'[d] = currentBudget[d]
                           ELSE /\ currentBudget'[d] # Null
                                /\ \E i \in ofMonth :
                                      /\ currentBudget'[d][1] = merged[i]
                                      /\ \A j \in ofMonth : i <= j
                        /\ ~isSyncing'[d]
                        /\ syncError'[d] = Null
      ]_vars

\* A pull is about to commit on an unchanged store, and the list it fetched
\* holds an expense the device does not have
C22_Witness ==
    \E d \in Devices :
        \E k \in 1..Len(pulls[d]) :
            /\ pulls[d][k].pc = "commit"
            /\ storeAsCaptured(d, pulls[d][k])
            /\ Len(budgetHistory[d]) = 1
            /\ Len(pulls[d][k].remoteBudgets) = 1
            /\ expenseIds(pulls[d][k].remoteBudgets[1])
                   \ expenseIds(budgetHistory[d][1]) # {}
            /\ expenseIds(budgetHistory[d][1]) # {}

----------------------------------------------------------------------------
(* Properties of connecting (SpecConnect) *)

\* Device d has made one connect call, the call has returned and the store is
\* connected to a family
connectedOnce(d) ==
    /\ Len(connects[d]) = 1
    /\ connects[d][1].pc = "done"
    /\ familyId[d] # Null

calledTwice(d) ==
    /\ Len(connects[d]) >= 2
    /\ connects[d][1].op = connects[d][2].op
    /\ connects[d][1].pc = "done"
    /\ connects[d][2].pc = "done"
    /\ familyId[d] # Null

\* C9: after a connect operation was invoked twice, the service holds exactly
\* one snapshot listener, and the first call registered it.
C9_SecondConnectRegistersNone ==
    \A d \in ConnectDevices :
        calledTwice(d) =>
            /\ Len(unsubscribeFunctions[d]) = 1
            /\ \A i \in 1..Len(unsubscribeFunctions[d]) :
                  unsubscribeFunctions[d][i].call = 1

----------------------------------------------------------------------------
(* Properties of the mutators (SpecMutate, Spec) *)

pushStarts(d) == Len(pushes'[d]) > Len(pushes[d])

pushMoves(d) == pushes'[d] # pushes[d] /\ ~pushStarts(d)

holdsBudget(history, budget) == \E i \in 1..Len(history) : history[i] = budget

\* C23: a push starts only on a device whose familyId is set; when it starts,
\* no remote call of it has been made and it carries the budget list as the
\* mutator left it, the current budget included; no later step of a push,
\* successful or failed, changes currentBudget or budgetHistory
C23_ChangeCommittedBeforePush ==
    [][\A d \in Devices :
          /\ pushStarts(d) =>
                LET frame == pushes'[d][Len(pushes'[d])]
                IN  /\ familyId[d] # Null
                    /\ frame.pc = "getDoc" /\ frame.i = 1
                    /\ docs' = docs
                    /\ frame.budgets = budgetHistory'[d]
                    /\ currentBudget'[d] # Null =>
                           holdsBudget(frame.budgets, currentBudget'[d][1])
          /\ timers'[d] > timers[d] => familyId[d] # Null
          /\ pushMoves(d) =>
                /\ budgetHistory'[d] = budgetHistory[d]
                /\ currentBudget'[d] = currentBudget[d]]_vars

\* A push of the device has failed and the expense its user added is still in
\* the current budget and in the list
C23_Witness ==
    \E d \in MutateDevices :
        /\ syncError[d] # Null
        /\ pushes[d] = <<>>
        /\ currentBudget[d] # Null
        /\ holdsBudget(budgetHistory[d], currentBudget[d][1])
        /\ \E e \in added[d] : e.id \in expenseIds(currentBudget[d][1])

\* What is left of the allocation of the call's source category is less than
\* the amount asked for
insufficient(d, call) ==
    /\ currentBudget[d] # Null
    /\ \E i \in 1..Len(currentBudget[d][1].categories) :
          LET cat == currentBudget[d][1].categories[i]
          IN  /\ cat.id = call.fromCategoryId
              /\ cat.allocatedAmount - cat.spentAmount < call.amount

\* C24: a topupCategory call that asks for more than what is left in the
\* source category leaves currentBudget and budgetHistory as they were
C24_InsufficientTopupRejected ==
    [][\A d \in Devices :
          (lastTopup'[d] # lastTopup[d] /\ insufficient(d, lastTopup'[d][1])) =>
              /\ currentBudget'[d] = currentBudget[d]
              /\ budgetHistory'[d] = budgetHistory[d]]_vars

\* The last operation was a top-up of 200 from a category with 300 allocated
\* and 150 spent to another category
C24_Witness ==
    \E d \in MutateDevices :
        /\ lastTopup[d] # Null
        /\ lastTopup[d][1].at = ops
        /\ lastTopup[d][1].fromCategoryId # lastTopup[d][1].toCategoryId
        /\ insufficient(d, lastTopup[d][1])
        /\ \E i \in 1..Len(currentBudget[d][1].categories) :
              LET cat == currentBudget[d][1].categories[i]
              IN  /\ cat.id = lastTopup[d][1].fromCategoryId
                  /\ cat.allocatedAmount = 300 /\ cat.spentAmount = 150

----------------------------------------------------------------------------
(* Properties of the budget list (SpecConnect, Spec) *)

monthsOnce(history) ==
    \A i, j \in 1..Len(history) : history[i].month = history[j].month => i = j

\* C25: no device's budgetHistory holds two budgets of the same month
C25_OneBudgetPerMonth == \A d \in Devices : monthsOnce(budgetHistory[d])

\* C26: a budget id that is in a device's budgetHistory is in it after every
\* step
C26_BudgetNeverRemoved ==
    [][\A d \in Devices :
          budgetIds(budgetHistory[d]) \subseteq budgetIds(budgetHistory'[d])]_vars

----------------------------------------------------------------------------
(* Properties of the deliveries (SpecEcho) *)

delivered(d) == Len(inbox'[d]) < Len(inbox[d])

\* No push or pull is under way, no timer is armed, no snapshot is undelivered
quiet ==
    \A d \in Devices :
        pushes[d] = <<>> /\ pulls[d] = <<>> /\ timers[d] = 0 /\ inbox[d] = <<>>

\* C27: a step that delivers a snapshot writes no document, starts no push
\* and arms no timer; and once the users have stopped, the devices come to
\* rest: from some point on no push is under way and nothing is undelivered
C27_DeliveryStartsNoWrite ==
    /\ [][\A d \in Devices :
             delivered(d) =>
                 docs' = docs /\ pushes' = pushes /\ timers' = timers]_vars
    /\ <>[]quiet

\* Both devices have handled a snapshot written by the other and are at rest
C27_Witness ==
    /\ quiet
    /\ \A d \in Devices : lastSyncTime[d] > 1 /\ added[d] # {}
    /\ \A d \in Devices : \E e \in IdsOf(budgetHistory[d][1].expenses) :
          \A x \in added[d] : x.id # e

----------------------------------------------------------------------------
(* Properties of the sync status (SpecStatus) *)

\* The syncToFirestore call in frame k of device d returns in this step
pushEnds(d, k) ==
    /\ k \in 1..Len(pushes[d])
    /\ pushes'[d] = RemoveAt(pushes[d], k)

\* C28: a device that is syncing comes to be not syncing; the step in which
\* a pull or a push returns sets isSyncing false and leaves syncError null
\* when its remote calls succeeded and non-null when one of them that the
\* operation depends on (getBudgets, the write of saveBudget) failed
C28_StatusReturnsToIdle ==
    /\ \A d \in StatusDevices : isSyncing[d] ~> ~isSyncing[d]
    /\ [][\A d \in StatusDevices :
             /\ \A k \in 1..Len(pulls[d]) :
                   pullEnds(d, k) =>
                       /\ ~isSyncing'[d]
                       /\ syncError'[d] = Null <=> ~pulls[d][k].failed
             /\ \A k \in 1..Len(pushes[d]) :
                   pushEnds(d, k) =>
                       /\ ~isSyncing'[d]
                       /\ syncError'[d] = Null <=>
                              pushes[d][k].pc \notin {"getDoc", "setDoc"}]_vars

----------------------------------------------------------------------------
(* Properties of overlapping pushes (SpecMutate) *)

\* C29: isSyncing keeps no push from starting: on a connected device that
\* holds a budget, every mutator starts a push or arms the timer of one, and
\* every timer that fires starts a push, also while a push is under way
C29_SyncingDoesNotBlockPush ==
    [][\A d \in MutateDevices :
          (familyId[d] # Null /\ svcFamilyId[d] # Null
              /\ budgetHistory'[d] # <<>>) =>
              /\ ops' # ops => pushStarts(d) \/ timers'[d] > timers[d]
              /\ timers'[d] < timers[d] => pushStarts(d)]_vars

\* Two pushes that overlapped have both completed, and the family document
\* holds the budget as the push that started first captured it, not as the
\* device holds it now
C29_Witness ==
    \E d \in MutateDevices :
        /\ ops = 2 /\ pushes[d] = <<>> /\ timers[d] = 0
        /\ lastSyncTime[d] = 3 /\ syncError[d] = Null
        /\ Len(budgetHistory[d]) = 1
        /\ Len(docs[F1].budgets) = 1
        /\ docs[F1].budgets[1] # budgetToFirestore(budgetHistory[d][1])
        /\ docs[F1].lastUpdatedBy = d

----------------------------------------------------------------------------
(* Properties of disconnecting (SpecDisconnect) *)

\* cleanup detaches the listeners of device d in this step
cleans(d) == unsubscribeFunctions[d] # <<>> /\ unsubscribeFunctions'[d] = <<>>

\* A connect call of device d that has a family to listen to ends in this step
connectEnds(d) ==
    \E k \in 1..Len(connects[d]) :
        /\ connects[d][k].pc \in {"afterInitialize", "resume"}
        /\ Len(connects'[d]) = Len(connects[d])
        /\ connects'[d][k].pc = "done"
        /\ familyId'[d] # Null /\ svcFamilyId'[d] # Null

\* C30: cleanup leaves the device without a listener, without an undelivered
\* snapshot and with both flags cleared (isSubscribed of the service,
\* isListenerActive of the store), and a connect call that ends with a family
\* leaves the device subscribed, also after a cleanup
C30_DisconnectClearsAndReconnects ==
    [][\A d \in ConnectDevices :
          /\ cleans(d) =>
                /\ unsubscribeFunctions'[d] = <<>> /\ inbox'[d] = <<>>
                /\ ~isSubscribed'[d]
                /\ ~isListenerActive'[d]
          /\ connectEnds(d) => isSubscribed'[d]]_vars

----------------------------------------------------------------------------
(* Properties of joining (SpecJoin) *)

\* What a failed join must not touch
joinKeeps(d) ==
    /\ familyId'[d] = familyId[d]
    /\ budgetHistory'[d] = budgetHistory[d]
    /\ currentBudget'[d] = currentBudget[d]
    /\ svcFamilyId'[d] = svcFamilyId[d]
    /\ storedFamilyId'[d] = storedFamilyId[d]
    /\ isListenerActive'[d] = isListenerActive[d]
    /\ isSubscribed'[d] = isSubscribed[d]
    /\ unsubscribeFunctions'[d] = unsubscribeFunctions[d]
    /\ inbox'[d] = inbox[d]

\* createOrJoinFamily is called in this step with the id of no family
joinMissingStarts(d) ==
    /\ Len(connects'[d]) = Len(connects[d]) + 1
    /\ connects'[d][Len(connects'[d])].pc = "join"
    /\ getDoc(connects'[d][Len(connects'[d])].family[1]) = Null

\* The getDoc of the join in frame k returns in this step: no such document
joinMissingEnds(d, k) ==
    /\ connects[d][k].pc = "join"
    /\ getDoc(connects[d][k].family[1]) = Null
    /\ connects'[d][k].pc # "join"

\* C31: createOrJoinFamily with the id of no family document ends at its
\* getDoc with syncError "Family not found" and isSyncing false, and from the
\* call to that end it changes neither familyId, budgetHistory, currentBudget,
\* the service's family reference (instance and localStorage) nor the
\* listener
C31_JoinMissingFamilyFails ==
    [][\A d \in ConnectDevices :
          /\ joinMissingStarts(d) => joinKeeps(d)
          /\ \A k \in 1..Len(connects[d]) :
                joinMissingEnds(d, k) =>
                    /\ connects'[d][k].pc = "done"
                    /\ syncError'[d] = Some("Family not found")
                    /\ ~isSyncing'[d]
                    /\ joinKeeps(d)]_vars

\* A join of the missing family has failed on a device that is in family F1
\* and listens to it
C31_Witness ==
    \E d \in ConnectDevices :
        /\ syncError[d] = Some("Family not found")
        /\ ~isSyncing[d]
        /\ familyId[d] = Some(F1) /\ svcFamilyId[d] = Some(F1)
        /\ isListenerActive[d] /\ isSubscribed[d]
        /\ \E k \in 1..Len(connects[d]) :
              /\ connects[d][k].family = Some(FMissing)
              /\ connects[d][k].pc = "done"

----------------------------------------------------------------------------
(* Properties of completing a fixed expense (SpecMutate) *)

\* The entries of the history of added expenses that this step makes
addedNow(d) == added'[d] \ added[d]

\* C32: a step in which markFixedExpenseComplete completes a template of the
\* current budget appends one expense with the template's category and
\* amount, the template's name as description and type "fixed"; sets the
\* template's isCompleted and nothing else of it; keeps every other template
\* and the number of templates; leaves names, types and allocations of the
\* categories alone and makes every spentAmount the sum of the expenses of
\* its category; and budgetHistory holds the budget so changed
C32_CompletionEmitsOneExpense ==
    [][\A d \in MutateDevices :
          \A a \in addedNow(d) :
              a.template # NoId =>
                  LET before == currentBudget[d][1]
                      after == currentBudget'[d][1]
                      templates == before.fixedExpenses
                      n == Len(before.expenses)
                  IN  /\ Len(after.expenses) = n + 1
                      /\ SubSeq(after.expenses, 1, n) = before.expenses
                      /\ after.expenses[n + 1].id = a.id
                      /\ after.expenses[n + 1].type = "fixed"
                      /\ Len(after.fixedExpenses) = Len(templates)
                      /\ \A i \in 1..Len(templates) :
                            IF templates[i].id = a.template
                            THEN /\ after.fixedExpenses[i] =
                                        [templates[i] EXCEPT !.isCompleted = TRUE]
                                 /\ after.expenses[n + 1].categoryId =
                                        templates[i].categoryId
                                 /\ after.expenses[n + 1].amount =
                                        templates[i].amount
                                 /\ after.expenses[n + 1].description =
                                        templates[i].name
                            ELSE after.fixedExpenses[i] = templates[i]
                      /\ \E i \in 1..Len(templates) : templates[i].id = a.template
                      /\ Len(after.categories) = Len(before.categories)
                      /\ \A i \in 1..Len(before.categories) :
                            /\ after.categories[i] =
                                   [before.categories[i] EXCEPT !.spentAmount =
                                        spentOf(after, before.categories[i].id)]
                      /\ holdsBudget(budgetHistory'[d], after)
                      /\ Cardinality(addedNow(d)) = 1]_vars

\* A template of the current budget has been completed: it is still on the
\* list, completed, and its expense is counted in its category
C32_Witness ==
    \E d \in MutateDevices :
        \E a \in added[d] :
            /\ a.template # NoId
            /\ currentBudget[d] # Null
            /\ \E i \in 1..Len(currentBudget[d][1].fixedExpenses) :
                  /\ currentBudget[d][1].fixedExpenses[i].id = a.template
                  /\ currentBudget[d][1].fixedExpenses[i].isCompleted
            /\ a.id \in expenseIds(currentBudget[d][1])
            /\ \E i \in 1..Len(currentBudget[d][1].categories) :
                  currentBudget[d][1].categories[i].spentAmount > 0

----------------------------------------------------------------------------
(* Properties of the incrementing store (SpecLedger) *)

\* C33: in the store that keeps spentAmount by increment and decrement, the
\* spentAmount of every category of the budget is the sum of the amounts of
\* the expenses of that category
C33_SpentIsSumOfExpenses ==
    currentBudgetInc # <<>> => spentDerived(currentBudgetInc[1])

----------------------------------------------------------------------------
(* Properties of the current budget and the history *)

\* The current budget of device d is the entry of its history with that id
currentInHistory(d) ==
    currentBudget[d] # <<>> =>
        /\ \E i \in 1..Len(budgetHistory[d]) :
               budgetHistory[d][i].id = currentBudget[d][1].id
        /\ \A i \in 1..Len(budgetHistory[d]) :
               budgetHistory[d][i].id = currentBudget[d][1].id
                   => budgetHistory[d][i] = currentBudget[d][1]

\* C34: whenever a device has a current budget, that budget is identical to
\* the entry of the device's budget history that has the same id
C34_CurrentBudgetInHistory == \A d \in Devices : currentInHistory(d)

----------------------------------------------------------------------------
(* Properties of the listener flag *)

\* The service of device d holds one live listener
oneLiveListener(d) ==
    /\ isSubscribed[d]
    /\ Len(unsubscribeFunctions[d]) = 1
    /\ unsubscribeFunctions[d][1].live

\* C35: the store's isListenerActive is true exactly when the service holds
\* one live snapshot listener (isSubscribed true, one unsubscribe function)
C35_FlagMatchesListener ==
    \A d \in Devices : isListenerActive[d] <=> oneLiveListener(d)

\* Every live listener of device d watches the document of the store's family
listensToOwnFamily(d) ==
    \A i \in 1..Len(unsubscribeFunctions[d]) :
        unsubscribeFunctions[d][i].live
            => familyId[d] = Some(unsubscribeFunctions[d][i].family)

\* C36: the live snapshot listener of a device always watches the document of
\* the store's current familyId
C36_ListenerWatchesCurrentFamily == \A d \in Devices : listensToOwnFamily(d)

----------------------------------------------------------------------------
(* Properties of deleted transactions *)

\* No budget device d holds has a transaction the device has deleted
deletedStayAbsent(d) ==
    /\ \A i \in 1..Len(budgetHistory[d]) :
           expenseIds(budgetHistory[d][i]) \cap removed[d] = {}
    /\ currentBudget[d] # <<>> =>
           expenseIds(currentBudget[d][1]) \cap removed[d] = {}

\* C37: a transaction a device has deleted with deleteExpense is absent from
\* that device's currentBudget and budgetHistory in every later state
C37_DeletedStaysDeleted == \A d \in Devices : deletedStayAbsent(d)

----------------------------------------------------------------------------
(* Properties of pushes of different budgets (SpecTwoBudgets) *)

\* Every budget of the family document with another id than the written one
\* is in the document after the step as it was before
othersKept(f, id) ==
    \A i \in 1..Len(docs[f].budgets) :
        docs[f].budgets[i].id # id =>
            \E j \in 1..Len(docs'[f].budgets) :
                docs'[f].budgets[j] = docs[f].budgets[i]

\* C38: the write of saveBudget(X) changes, of the budgets of the family
\* document, only the entry with X's id: every budget with another id that is
\* in the document when the write is made is in it unchanged afterwards
C38_PushChangesOnlyItsBudget ==
    [][\A d \in Devices :
          \A k \in 1..Len(pushes[d]) :
              saveBudgetWrites(d, k) =>
                  othersKept(pushes[d][k].family,
                             pushes[d][k].budgets[pushes[d][k].i].id)]_vars

----------------------------------------------------------------------------
(* Properties of an accepted top-up (SpecMutate) *)

RECURSIVE allocatedTotal(_)
\* The sum of allocatedAmount over a list of categories
allocatedTotal(categories) ==
    IF categories = <<>> THEN 0
    ELSE Head(categories).allocatedAmount + allocatedTotal(Tail(categories))

\* This step is a topupCategory call of device d that is not rejected
topupAccepted(d) ==
    /\ lastTopup'[d] # lastTopup[d]
    /\ currentBudget[d] # Null
    /\ ~insufficient(d, lastTopup'[d][1])

\* The step leaves the total allocation, every spentAmount and the expenses of
\* the current budget of device d as they were
topupMovesOnly(d) ==
    /\ currentBudget'[d] # Null
    /\ allocatedTotal(currentBudget'[d][1].categories)
           = allocatedTotal(currentBudget[d][1].categories)
    /\ MapSeq(currentBudget'[d][1].categories, LAMBDA cat : cat.spentAmount)
           = MapSeq(currentBudget[d][1].categories, LAMBDA cat : cat.spentAmount)
    /\ currentBudget'[d][1].expenses = currentBudget[d][1].expenses

\* C39: an accepted topupCategory(from, to, amount) leaves the sum of the
\* allocated amounts of the budget's categories unchanged and changes no
\* spentAmount and no transaction, for every pair of categories, from = to
\* included
C39_TopupKeepsTotal ==
    [][\A d \in Devices : topupAccepted(d) => topupMovesOnly(d)]_vars

----------------------------------------------------------------------------
(* Properties of completing a template twice (SpecMutate) *)

\* C40: each fixed-expense template of a budget emits at most one
\* transaction: the calls of markFixedExpenseComplete that name one template
\* have added at most one expense between them
C40_OneExpensePerTemplate ==
    \A d \in Devices :
        \A a, b \in added[d] :
            (a.template # NoId /\ a.template = b.template /\ a.budget = b.budget)
                => a = b

====
